---------------------------- MODULE Spec2Model ----------------------------
(***************************************************************************)
(* A model of the core of dexon-consensus: the NodeSetCache, the DKG       *)
(* qualification and threshold rules, the per-chain agreement receiver and *)
(* the Consensus.processBlock pipeline.  One module holds several          *)
(* specifications, one per subsystem; each leaves the variables of the     *)
(* other subsystems at their initial value.                                *)
(***************************************************************************)
EXTENDS Integers, Sequences, FiniteSets, TLC

VARIABLES
    \* ---- src/core/consensus.go: Run and runDKGTSIG
    dkgRunning,    \* con.dkgRunning: 0 not started, 1 running, 2 finished
    dkgReadyL,     \* who holds con.dkgReady.L
    rdPc,          \* where Run stands
    rdTasks,       \* the goroutines of runDKGTSIG: started, live, finished
    rdPanic,       \* the task panicked; the process ends
    rdCalls,       \* the calls of runDKGTSIG made
    rdBA,          \* the chains whose runBA was started
    rdSenders,     \* chain -> the tick senders waiting for its runBA
    rdDelivered,   \* chain -> the ticks its runBA received
    \* ---- src/unnamed/part_002: the vote cache of a Network
    vcCache,       \* n.voteCache: Position -> the VoteHeaders cached
    vcPositions,   \* n.votePositions
    vcSize,        \* n.voteCacheSize
    vcLast,        \* the last call: the vote and the cache before it
    vcStamp,       \* Position -> the call that gave it its entry
    vcCalls,       \* how many calls were made
    \* ---- core/dkg-tsig-protocol.go: the dkgProtocol of one participant
    dp,            \* d: idMap, prvSharesReceived, nodeComplained, ...
    dpOut,         \* what the last call proposed through d.recv
    dpArrived,     \* the proposers whose share for this node was processed
    dpAntiSeen,    \* the <<k, j>> of the valid anti-nacks processed
    dpComplained,  \* proposer -> the complaints with a share proposed on it
    dpShareMsgs,   \* how many private shares were processed
    \* ---- core/consensus.go: runBA and the restarts of a chain's agreement
    raPc,          \* chain -> runBA: "start", "select", "state" or "exited"
    raChan,        \* chain -> recv.restartNotary, a channel of capacity 1
    raPending,     \* chain -> ConfirmBlock waits to send on restartNotary
    raNextHeight,  \* chain -> rbModule.nextHeight(chain)
    raNIDs,        \* chain -> nIDs, the notary subset runBA holds
    raAgreement,   \* chain -> the agreement: notary set, height, state steps
    raLast,        \* chain -> what the last select of runBA received
    \* ---- core/consensus.go: concurrent calls of Consensus.processBlock
    pbPc,          \* chain -> where ConfirmBlock's processBlock call stands
    pbBlock,       \* chain -> the block of the call
    pbSeen,        \* chain -> the chainTime sanityCheck read for the call
    pbTodo,        \* chain -> the extracted blocks the call's loop has left
    conLock,       \* con.lock: the chain whose call holds it, -1 when free
    rLocked,       \* prepareBlock holds con.lock for reading
    pbSt,          \* the pipeline: rbModule, toModule, db, ctModule, callbacks
    pbChecked,     \* block hash -> the chainTime its sanity check read
    pbAdmit,       \* the admissions of rbModule, with the chain time in force
    pbExtracted,   \* the hashes extractBlocks returned, in its order
    pbCalls,       \* how many calls have passed their sanity check
    \* ---- the test App (src/unnamed/part_003 is its test): two recorded Apps
    app,           \* an App: Acked, TotalOrdered, DeliverSequence
    appOther,      \* the App it is compared with
    \* ---- the test Network's Run and dispatchMsg, and Consensus.processMsg
    netArrived,    \* how many votes Run has received from n.fromTransport
    netDispatching, \* the votes whose `go n.dispatchMsg(e)` has not run yet
    voteCache,     \* n.voteCache: position -> the vote headers cached
    votePositions, \* n.votePositions: the cached positions, oldest first
    toConsensus,   \* n.toConsensus: the channel Consensus.processMsg reads
    baProcessed,   \* chain -> the votes baModules[chain].processVote was given
    dispPanic,     \* processMsg hit a run-time panic: the process is gone
    netClosed,     \* Network.Close() was called
    netPanic,      \* a dispatchMsg sent on a closed channel: the process is gone
    netStuck,      \* the dispatchMsg goroutines that wait in a send for ever
    \* ---- core/nodeset-cache.go: NodeSetCache
    rounds,        \* cache.rounds: round -> sets (nodeSet, notarySet, dkgSet)
    keyPool,       \* cache.keyPool: NodeID -> refCnt (the pubKey is the node's)
    lastPopulated, \* the round the last successful cache.update cached, or -1
    lastPurged,    \* the rounds that update deleted
    lastErr,       \* the error the last query returned
    lastGov,       \* the round of the last query, and what governance answered
    nscPc,         \* task -> where its query stands: "idle" or "update"
    nscQuery,      \* task -> the round of its query
    \* ---- subset selection of cache.update for one round
    govKeys,       \* gov.NodeSet(round): the keys in the order governance lists
    subSets,       \* the sets update derived from a listing, or NoSets
    \* ---- the maps of one cached round as objects, and a caller's reference
    heap,          \* object -> the NodeIDs the map holds
    heapRound,     \* the round and the keys the cached objects were built from
    callerRef,     \* the object the last getter returned to the caller, or -1
    callerSrc,     \* the cache's object that getter read, or -1
    \* ---- the test Network: its caches, as the sets of their keys
    blockCache,      \* n.blockCache: block hash -> block
    randomnessCache, \* n.randomnessCache: block hash -> randomness result
    sentAgreement,   \* n.sentAgreement: block hashes
    sentRandomness,  \* n.sentRandomness: block hashes
    \* ---- core/dkg-tsig-protocol.go: a TSigVerifierCache over many rounds
    tcVerifier,    \* tc.verifier: round -> group public key
    tcMinRound,    \* tc.minRound
    tcCacheSize,   \* tc.cacheSize, -1 before NewTSigVerifierCache
    tcHung,        \* an Update is in its last loop and never leaves it
    tcLast,        \* the last Update: its round, its results, the cache before
    tcEver,        \* the rounds whose group public key was cached at some time
    \* ---- core/consensus.go: the tasks Run starts, and Stop
    ctxDone,       \* con.ctx is cancelled
    msgPc,         \* processMsg: "select", "handle" or "exited"
    witnessPc,     \* processWitnessData: "select", "handle" or "exited"
    runBAPc,       \* chain -> runBA: "tick", "check", "clocks", "state", "exited"
    runBAClocks,   \* chain -> the ticks runBA still waits for
    tickSenders,   \* chain -> the goroutines blocked in `tick <- struct{}{}`
    \* ---- core/dkg-tsig-protocol.go, and governance's DKG records of round 0
    govMpks,       \* gov.DKGMasterPublicKeys(0): the proposers of a master key
    govComplaints, \* gov.DKGComplaints(0): complaint -> how often it is listed
    antiNacks,     \* the anti-nack shares broadcast: <<complainer, accused>>
    dkgFinal,      \* gov.IsDKGFinal(0)
    dkgThreshold,  \* the threshold NewConsensus registered the DKG of round 0 with
    verifier,      \* TSigVerifierCache.verifier: round -> group public key
    minRound,      \* TSigVerifierCache.minRound
    \* ---- core/consensus.go: Consensus and its modules
    candidates,    \* baModules[chain]: the candidate blocks
    restartNotary, \* receivers[chain].restartNotary: a channel of capacity 1
    sendPending,   \* ConfirmBlock of the chain waits to send on restartNotary
    rbTip,         \* rbModule: the tip of each chain (height -1: no block)
    rbBuffer,      \* rbModule: blocks waiting for their predecessor
    rbAdmitted,    \* rbModule: admitted blocks extractBlocks has not returned
    toPending,     \* toModule: the blocks not delivered yet
    db,            \* the block database: hash -> consensus timestamp
    ctTips,        \* ctModule: timestamp of the last block of each chain
    ctPrev,        \* ctModule: the previous consensus timestamp
    appLog,        \* nbModule: the callbacks issued to the application
    conErr,        \* the error the last handler returned (and logged), or Nil
    conPropose,    \* what the last handler, if ProposeBlock, built and broadcast
    conPanic,      \* a handler hit a run-time panic: the process is gone
    \* ---- the agreement of one (chain, height): the honest voters
    baPrepareVotes, \* the Prepare votes cast: [voter, period, hash]
    baAckVotes,     \* the Ack votes cast: [voter, period, hash]
    baLock,         \* voter -> the candidate it is locked on, or SKIP
    baPeriod,       \* voter -> its period
    baConfirmed,    \* voter -> the hash it called ConfirmBlock with, or SKIP
    baConfirmedAt,  \* voter -> the period of the Ack votes it confirmed on
    \* ---- core/dkg-tsig-protocol.go: one tsigProtocol
    tsigGpk,        \* tsig.groupPublicKey
    tsigHash,       \* tsig.hash
    tsigSigs,       \* tsig.sigs: DKG ID -> partial signature
    tsigSenders,    \* the proposers whose partial signature was stored
    tsigErr,        \* what the last processPartialSignature returned
    tsigOut         \* what signature() returned since the last change

nscVars == <<rounds, keyPool, lastPopulated, lastPurged, lastErr, lastGov>>

dkgVars == <<govMpks, govComplaints, antiNacks, dkgFinal, dkgThreshold,
             verifier, minRound>>

conVars ==
    <<candidates, restartNotary, sendPending, rbTip, rbBuffer,
      rbAdmitted, toPending, db, ctTips, ctPrev, appLog, conErr, conPropose,
      conPanic>>

baVars == <<baPrepareVotes, baAckVotes, baLock, baPeriod, baConfirmed,
            baConfirmedAt>>

taskVars == <<nscPc, nscQuery>>

subSetVars == <<govKeys, subSets>>

heapVars == <<heap, heapRound, callerRef, callerSrc>>

netVars == <<blockCache, randomnessCache, sentAgreement, sentRandomness>>

tcVars == <<tcVerifier, tcMinRound, tcCacheSize, tcHung, tcLast, tcEver>>

runVars == <<ctxDone, msgPc, witnessPc, runBAPc, runBAClocks, tickSenders>>

tsigVars == <<tsigGpk, tsigHash, tsigSigs, tsigSenders, tsigErr, tsigOut>>

dispVars ==
    <<netArrived, netDispatching, voteCache, votePositions, toConsensus,
      baProcessed, dispPanic, netClosed, netPanic, netStuck>>

appVars == <<app, appOther>>

pbVars ==
    <<pbPc, pbBlock, pbSeen, pbTodo, conLock, rLocked, pbSt, pbChecked,
      pbAdmit, pbExtracted, pbCalls>>

raVars == <<raPc, raChan, raPending, raNextHeight, raNIDs, raAgreement, raLast>>

dpVars == <<dp, dpOut, dpArrived, dpAntiSeen, dpComplained, dpShareMsgs>>

vcVars == <<vcCache, vcPositions, vcSize, vcLast, vcStamp, vcCalls>>

rdVars == <<dkgRunning, dkgReadyL, rdPc, rdTasks, rdPanic, rdCalls, rdBA, rdSenders, rdDelivered>>

vars ==
    <<nscVars, dkgVars, conVars, baVars, tsigVars, taskVars, subSetVars,
      heapVars, netVars, tcVars, runVars, dispVars, appVars, pbVars, raVars,
      dpVars, vcVars, rdVars>>

\* What the operations of one component leave alone: the other components.
notNscVars ==
    <<dkgVars, conVars, baVars, tsigVars, taskVars, subSetVars, heapVars,
      netVars, tcVars, runVars, dispVars, appVars, pbVars, raVars, dpVars,
      vcVars, rdVars>>
notDkgVars ==
    <<nscVars, conVars, baVars, tsigVars, taskVars, subSetVars, heapVars,
      netVars, tcVars, runVars, dispVars, appVars, pbVars, raVars, dpVars,
      vcVars, rdVars>>
notConVars ==
    <<nscVars, dkgVars, baVars, tsigVars, taskVars, subSetVars, heapVars,
      netVars, tcVars, runVars, dispVars, appVars, pbVars, raVars, dpVars,
      vcVars, rdVars>>
notBaVars ==
    <<nscVars, dkgVars, conVars, tsigVars, taskVars, subSetVars, heapVars,
      netVars, tcVars, runVars, dispVars, appVars, pbVars, raVars, dpVars,
      vcVars, rdVars>>
notTsigVars ==
    <<nscVars, dkgVars, conVars, baVars, taskVars, subSetVars, heapVars,
      netVars, tcVars, runVars, dispVars, appVars, pbVars, raVars, dpVars,
      vcVars, rdVars>>
notTaskVars ==
    <<dkgVars, conVars, baVars, tsigVars, subSetVars, heapVars, netVars,
      tcVars, runVars, dispVars, appVars, pbVars, raVars, dpVars, vcVars,
      rdVars>>
notSubSetVars ==
    <<nscVars, dkgVars, conVars, baVars, tsigVars, taskVars, heapVars,
      netVars, tcVars, runVars, dispVars, appVars, pbVars, raVars, dpVars,
      vcVars, rdVars>>
notHeapVars ==
    <<nscVars, dkgVars, conVars, baVars, tsigVars, taskVars, subSetVars,
      netVars, tcVars, runVars, dispVars, appVars, pbVars, raVars, dpVars,
      vcVars, rdVars>>
notNetVars ==
    <<nscVars, dkgVars, conVars, baVars, tsigVars, taskVars, subSetVars,
      heapVars, tcVars, runVars, dispVars, appVars, pbVars, raVars, dpVars,
      vcVars, rdVars>>
notTcVars ==
    <<nscVars, dkgVars, conVars, baVars, tsigVars, taskVars, subSetVars,
      heapVars, netVars, runVars, dispVars, appVars, pbVars, raVars, dpVars,
      vcVars, rdVars>>
notRunVars ==
    <<nscVars, dkgVars, conVars, baVars, tsigVars, taskVars, subSetVars,
      heapVars, netVars, tcVars, dispVars, appVars, pbVars, raVars, dpVars,
      vcVars, rdVars>>
notDispVars ==
    <<nscVars, dkgVars, conVars, baVars, tsigVars, taskVars, subSetVars,
      heapVars, netVars, tcVars, runVars, appVars, pbVars, raVars, dpVars,
      vcVars, rdVars>>
notAppVars ==
    <<nscVars, dkgVars, conVars, baVars, tsigVars, taskVars, subSetVars,
      heapVars, netVars, tcVars, runVars, dispVars, pbVars, raVars, dpVars,
      vcVars, rdVars>>
notPbVars ==
    <<nscVars, dkgVars, conVars, baVars, tsigVars, taskVars, subSetVars,
      heapVars, netVars, tcVars, runVars, dispVars, appVars, raVars, dpVars,
      vcVars, rdVars>>
notRaVars ==
    <<nscVars, dkgVars, conVars, baVars, tsigVars, taskVars, subSetVars,
      heapVars, netVars, tcVars, runVars, dispVars, appVars, pbVars, dpVars,
      vcVars, rdVars>>
notDpVars ==
    <<nscVars, dkgVars, conVars, baVars, tsigVars, taskVars, subSetVars,
      heapVars, netVars, tcVars, runVars, dispVars, appVars, pbVars, raVars,
      vcVars, rdVars>>
notVcVars ==
    <<nscVars, dkgVars, conVars, baVars, tsigVars, taskVars, subSetVars,
      heapVars, netVars, tcVars, runVars, dispVars, appVars, pbVars, raVars,
      dpVars, rdVars>>
notRdVars ==
    <<nscVars, dkgVars, conVars, baVars, tsigVars, taskVars, subSetVars,
      heapVars, netVars, tcVars, runVars, dispVars, appVars, pbVars, raVars,
      dpVars, vcVars>>

(***************************************************************************)
(* Helpers                                                                 *)
(***************************************************************************)
Nil == "nil"

Restrict(f, S) == [x \in S |-> f[x]]

(***************************************************************************)
(* NodeSetCache (src/core/nodeset-cache.go)                                *)
(***************************************************************************)
\* The largest round a query names.
MaxRound == 6

\* The nodes governance draws a round's node set from.
Nodes == {"n1", "n2", "n3"}

Rounds == 0..MaxRound

\* The literal of the purge test `round-rID <= 5`.
PurgeWindow == 5

\* gov.Configuration(round) of the model: two chains, subsets of one node.
NumChains == 2

NumNotarySet == 1

NumDKGSet == 1

\* gov.CRS(round): a fixed seed per round.
CRS(round) == round % 2

NodeIndex(n) == IF n = "n1" THEN 1 ELSE IF n = "n2" THEN 2 ELSE 3

\* types.NewDKGSetTarget / types.NewNotarySetTarget(crs, chainID): the tag of
\* the subset kind; the rank of a node under a target is a hash of
\* (crs, tag, NodeID), a fixed pseudo-random integer here.
DKGSetTarget(crs) == [crs |-> crs, tag |-> 0]

NotarySetTarget(crs, chainID) == [crs |-> crs, tag |-> chainID + 1]

Rank(target, n) == (target.crs * 7 + target.tag * 5 + NodeIndex(n) * (3 + target.tag)) % 11

\* Smaller rank first, ties broken by NodeID.
RankLess(target, a, b) ==
    \/ Rank(target, a) < Rank(target, b)
    \/ Rank(target, a) = Rank(target, b) /\ NodeIndex(a) < NodeIndex(b)

\* NodeSet.GetSubSet(size, target): the `size` nodes of smallest rank, all of
\* the node set when it has fewer.
GetSubSet(nodeSet, size, target) ==
    {n \in nodeSet :
        Cardinality({m \in nodeSet : RankLess(target, m, n)}) < size}

\* Mutant of InWindow: the window one round too wide.
InWindow_Wide(round, rID) ==
    IF round >= rID THEN round - rID <= PurgeWindow + 1 ELSE FALSE

\* `round-rID <= 5` on uint64 operands: the subtraction wraps, so for
\* rID > round the difference is 2^64 - (rID - round), far above 5 for every
\* pair of rounds below 2^64 - 5.
InWindow(round, rID) ==
    IF round >= rID THEN round - rID <= PurgeWindow ELSE FALSE

\* The key-pool half of the loop over keySet: refCnt++ or a new record.
AddKeys(kp, keySet) ==
    [n \in DOMAIN kp \cup keySet |->
        IF n \in keySet
        THEN (IF n \in DOMAIN kp THEN kp[n] + 1 ELSE 1)
        ELSE kp[n]]

\* Mutant of ReleaseKeys: the record is deleted whatever its refCnt.
ReleaseKeys_NoRefCnt(kp, nodeSet) == Restrict(kp, DOMAIN kp \ nodeSet)

\* One purged round: refCnt-- for every member, delete the record at zero.
ReleaseKeys(kp, nodeSet) ==
    LET dec == [n \in DOMAIN kp |-> IF n \in nodeSet THEN kp[n] - 1 ELSE kp[n]]
    IN  Restrict(dec, {n \in DOMAIN dec : ~(n \in nodeSet /\ dec[n] = 0)})

RECURSIVE PurgeKeys(_, _, _)
PurgeKeys(kp, rs, purged) ==
    IF purged = {} THEN kp
    ELSE LET rID == CHOOSE r \in purged : TRUE
         IN  PurgeKeys(ReleaseKeys(kp, rs[rID].nodeSet), rs, purged \ {rID})

\* The rounds the purge loop deletes after `round` was cached.
PurgedRounds(rs, round) == {rID \in DOMAIN rs : ~InWindow(round, rID)}

\* The sets cached for a round whose governance key list is keySet, tabulated
\* over the rounds and key lists of the model (<<>> @@ f is f, enumerated
\* once by TLC instead of at every use).
SetsTable ==
    <<>> @@ [round \in Rounds, keySet \in SUBSET Nodes |->
        [nodeSet   |-> keySet,
         notarySet |-> [i \in 0..(NumChains - 1) |->
                          GetSubSet(keySet, NumNotarySet,
                                    NotarySetTarget(CRS(round), i))],
         dkgSet    |-> GetSubSet(keySet, NumDKGSet, DKGSetTarget(CRS(round)))]]

NewSets(round, keySet) == SetsTable[round, keySet]

CacheRound(rs, round, keySet) ==
    [r \in DOMAIN rs \cup {round} |->
        IF r = round THEN NewSets(round, keySet) ELSE rs[r]]

\* cache.update(round) when governance returns keySet (not nil).
UpdatedRounds(rs, round, keySet) ==
    LET rs1 == CacheRound(rs, round, keySet)
    IN  Restrict(rs1, DOMAIN rs1 \ PurgedRounds(rs1, round))

UpdatedKeyPool(rs, kp, round, keySet) ==
    LET rs1 == CacheRound(rs, round, keySet)
    IN  PurgeKeys(AddKeys(kp, keySet), rs1, PurgedRounds(rs1, round))

\* gov.NodeSet(round): nil (the round is not ready) or a list of distinct
\* keys; the lists share one node, so that key records are shared by rounds.
GovNodeSets ==
    {[ready |-> FALSE, keys |-> {}]}
        \cup {[ready |-> TRUE, keys |-> ks] : ks \in {{"n1", "n2"}, {"n2", "n3"}}}

\* The round a query named, whether it asked governance for the round's node
\* set, and whether governance had one.
GovAnswer(round, asked, ready) ==
    [round |-> round, asked |-> asked, ready |-> ready]

\* cache.get(round)
Get(round) == round \in DOMAIN rounds

\* An update that caches an empty round when governance has no node set.
Update_CachesNotReady(round, gov, after) ==
    /\ lastErr' = IF gov.ready THEN after ELSE "ErrRoundNotReady"
    /\ lastGov' = GovAnswer(round, TRUE, gov.ready)
    /\ rounds' = UpdatedRounds(rounds, round, gov.keys)
    /\ keyPool' = UpdatedKeyPool(rounds, keyPool, round, gov.keys)
    /\ lastPopulated' = round
    /\ lastPurged' = DOMAIN rounds \ DOMAIN rounds'

\* cache.update(round) with the answer of governance; `after` is the error
\* the caller returns once it holds the round's sets (nil, or its own check's).
Update(round, gov, after) ==
    IF ~gov.ready
    THEN /\ lastErr' = "ErrRoundNotReady"
         /\ lastGov' = GovAnswer(round, TRUE, FALSE)
         /\ UNCHANGED <<rounds, keyPool, lastPopulated, lastPurged>>
    ELSE /\ rounds' = UpdatedRounds(rounds, round, gov.keys)
         /\ lastGov' = GovAnswer(round, TRUE, TRUE)
         /\ keyPool' = UpdatedKeyPool(rounds, keyPool, round, gov.keys)
         /\ lastPopulated' = round
         /\ lastPurged' = DOMAIN rounds \ DOMAIN rounds'
         /\ lastErr' = after

\* getOrUpdate, and the same get-then-update prefix of Exists and GetNodeSet.
GetOrUpdate(round, after) ==
    IF Get(round)
    THEN /\ lastErr' = after
         /\ lastGov' = GovAnswer(round, FALSE, FALSE)
         /\ UNCHANGED <<rounds, keyPool, lastPopulated, lastPurged>>
    ELSE \E gov \in GovNodeSets : Update(round, gov, after)

\* Exists(round, nodeID); the answer is ExistsResult once the round is cached.
Exists ==
    /\ \E round \in Rounds : GetOrUpdate(round, Nil)
    /\ UNCHANGED notNscVars

ExistsResult(round, nodeID) == nodeID \in rounds[round].nodeSet

\* GetNodeSet(round) returns a clone of rounds[round].nodeSet.
GetNodeSet ==
    /\ \E round \in Rounds : GetOrUpdate(round, Nil)
    /\ UNCHANGED notNscVars

\* GetNotarySet(round, chainID) returns a clone of notarySet[chainID], or
\* ErrInvalidChainID for chainID >= len(notarySet).
GetNotarySet ==
    /\ \E round \in Rounds, chainID \in 0..NumChains : GetOrUpdate(round, IF chainID >= NumChains THEN "ErrInvalidChainID" ELSE Nil)
    /\ UNCHANGED notNscVars

\* GetDKGSet(round) returns a clone of rounds[round].dkgSet.
GetDKGSet ==
    /\ \E round \in Rounds : GetOrUpdate(round, Nil)
    /\ UNCHANGED notNscVars

\* GetPublicKey(nodeID): found iff the key pool holds a record.
GetPublicKey(nodeID) == nodeID \in DOMAIN keyPool

NodeSetCacheInit ==
    /\ rounds = <<>>
    /\ keyPool = <<>>
    /\ lastPopulated = -1
    /\ lastPurged = {}
    /\ lastErr = Nil
    /\ lastGov = GovAnswer(0, FALSE, FALSE)

NodeSetCacheNext == Exists \/ GetNodeSet \/ GetNotarySet \/ GetDKGSet

\* ---- Concurrent queries: get and update each take the lock on their own.
\* The tasks that query the cache (the BA task of each chain asks for the
\* round's sets).
Tasks == {"t1", "t2"}

\* The rounds the concurrent tasks ask for: one and a later one that purges it.
TaskRounds == {0, MaxRound}

\* A query starts: cache.get(round) under the read lock.  A hit returns; on a
\* miss the task goes on to cache.update(round).
TaskGet ==
    /\ \E t \in Tasks, round \in TaskRounds :
        /\ nscPc[t] = "idle"
        /\ IF Get(round)
           THEN /\ lastErr' = Nil
                /\ lastGov' = GovAnswer(round, FALSE, FALSE)
                /\ UNCHANGED <<rounds, keyPool, lastPopulated, lastPurged,
                               nscPc, nscQuery>>
           ELSE /\ nscPc' = [nscPc EXCEPT ![t] = "update"]
                /\ nscQuery' = [nscQuery EXCEPT ![t] = round]
                /\ UNCHANGED nscVars
    /\ UNCHANGED notTaskVars

\* The largest refCnt the model lets a key record reach.
MaxRefCnt == 3

\* cache.update(round) under the write lock, whatever happened to the cache
\* since the task's get.
TaskUpdate ==
    /\ \E t \in Tasks :
        /\ nscPc[t] = "update"
        /\ \A n \in DOMAIN keyPool : keyPool[n] < MaxRefCnt
        /\ \E gov \in GovNodeSets : Update(nscQuery[t], gov, Nil)
        /\ nscPc' = [nscPc EXCEPT ![t] = "idle"]
        /\ UNCHANGED nscQuery
    /\ UNCHANGED notTaskVars

TasksInit ==
    /\ nscPc = [t \in Tasks |-> "idle"]
    /\ nscQuery = [t \in Tasks |-> 0]

TasksNext == TaskGet \/ TaskUpdate

\* ---- Subset selection from the keys as governance lists them.
\* The longest key list governance returns.
MaxKeys == 3

\* The largest subset size a configuration asks for.
MaxSubSetSize == 4

\* The loop over keySet: nodeSet.Add(nID) for every key of the list.
NodeSetOf(keys) == {keys[i] : i \in DOMAIN keys}

\* The member of the candidates that is last in rank order.
Worst(target, S) ==
    CHOOSE n \in S : \A m \in S \ {n} : RankLess(target, m, n)

\* A selection that keeps the nodes it saw first.
Evict_Newest(target, S, new) == S \ {new}

\* One node too many among the candidates: the last in rank order leaves.
Evict(target, S, new) == S \ {Worst(target, S)}

\* GetSubSet over a node set that is walked in the order of the list: every
\* node is offered in turn, and the candidates never number more than size.
RECURSIVE SelectSubSet(_, _, _, _, _)
SelectSubSet(keys, i, size, target, chosen) ==
    IF i > Len(keys) THEN chosen
    ELSE LET offered == chosen \cup {keys[i]}
         IN  SelectSubSet(keys, i + 1, size, target,
                          IF Cardinality(offered) > size
                          THEN Evict(target, offered, keys[i])
                          ELSE offered)

\* The sets update derives from governance's list for a seed and the sizes.
SetsOf(keys, crs, numNotarySet, numDKGSet) ==
    [nodeSet   |-> NodeSetOf(keys),
     notarySet |-> [i \in 0..(NumChains - 1) |->
                      SelectSubSet(keys, 1, numNotarySet,
                                   NotarySetTarget(crs, i), {})],
     dkgSet    |-> SelectSubSet(keys, 1, numDKGSet, DKGSetTarget(crs), {}),
     crs |-> crs, numNotarySet |-> numNotarySet, numDKGSet |-> numDKGSet]

\* No sets derived from the current list.
NoSets ==
    [nodeSet |-> {}, notarySet |-> [i \in 0..(NumChains - 1) |-> {}],
     dkgSet |-> {}, crs |-> 0, numNotarySet |-> 0 - 1, numDKGSet |-> 0 - 1]

\* Governance lists one more key of the round's node set.
GovAddKey ==
    /\ \E n \in Nodes :
        /\ Len(govKeys) < MaxKeys
        /\ n \notin NodeSetOf(govKeys)
        /\ govKeys' = Append(govKeys, n)
        /\ subSets' = NoSets
    /\ UNCHANGED notSubSetVars

\* cache.update(round): the sets of the round from governance's list.
UpdateSets ==
    /\ \E crs \in {0, 1}, numNotarySet \in 0..MaxSubSetSize,
          numDKGSet \in 0..MaxSubSetSize :
        subSets' = SetsOf(govKeys, crs, numNotarySet, numDKGSet)
    /\ UNCHANGED govKeys
    /\ UNCHANGED notSubSetVars

SubSetInit ==
    /\ govKeys = <<>>
    /\ subSets = NoSets

SubSetNext == GovAddKey \/ UpdateSets

\* ---- The sets a getter returns: the cached maps and the caller's map.
\* The object the caller holds after a getter that copied.
ObjCopy == 0

\* The objects of the cached round: sets.nodeSet, sets.notarySet[i], sets.dkgSet.
ObjNodeSet == 1

ObjNotarySet(chainID) == 2 + chainID

ObjDKGSet == 2 + NumChains

Objects == 0..ObjDKGSet

\* No reference.
NoRef == 0 - 1

\* No round cached.
NoRound == [round |-> 0 - 1, keys |-> {}]

\* A getter that returns the cache's own map.
cloneMap_Alias(h, ref) == [heap |-> h, ref |-> ref]

\* cache.cloneMap(nIDs): a new map with the keys of nIDs.
cloneMap(h, ref) == [heap |-> [h EXCEPT ![ObjCopy] = h[ref]], ref |-> ObjCopy]

\* NodeSet.Clone(): a new NodeSet with the IDs of the receiver.
Clone(h, ref) == [heap |-> [h EXCEPT ![ObjCopy] = h[ref]], ref |-> ObjCopy]

\* The maps update builds for the round.
CachedObjects(round, keys) ==
    [o \in Objects |->
        IF o = ObjNodeSet THEN NewSets(round, keys).nodeSet
        ELSE IF o = ObjDKGSet THEN NewSets(round, keys).dkgSet
        ELSE IF o = ObjCopy THEN {}
        ELSE NewSets(round, keys).notarySet[o - 2]]

\* cache.update(round) caches the round.
CacheObjects ==
    /\ heapRound = NoRound
    /\ \E round \in {0, 1}, gov \in {g \in GovNodeSets : g.ready} :
        /\ heapRound' = [round |-> round, keys |-> gov.keys]
        /\ heap' = CachedObjects(round, gov.keys)
    /\ UNCHANGED <<callerRef, callerSrc>>
    /\ UNCHANGED notHeapVars

\* The caller holds what the getter returned.
Returned(res, src) ==
    /\ heap' = res.heap
    /\ callerRef' = res.ref
    /\ callerSrc' = src
    /\ UNCHANGED heapRound

\* GetNodeSet(round) of the cached round: IDs.nodeSet.Clone()
ReturnNodeSet ==
    /\ heapRound # NoRound
    /\ Returned(Clone(heap, ObjNodeSet), ObjNodeSet)
    /\ UNCHANGED notHeapVars

\* GetNotarySet(round, chainID): cache.cloneMap(IDs.notarySet[chainID])
ReturnNotarySet ==
    /\ heapRound # NoRound
    /\ \E chainID \in 0..(NumChains - 1) :
        Returned(cloneMap(heap, ObjNotarySet(chainID)), ObjNotarySet(chainID))
    /\ UNCHANGED notHeapVars

\* GetDKGSet(round): cache.cloneMap(IDs.dkgSet)
ReturnDKGSet ==
    /\ heapRound # NoRound
    /\ Returned(cloneMap(heap, ObjDKGSet), ObjDKGSet)
    /\ UNCHANGED notHeapVars

\* The caller adds a node to the set it was given.
CallerAdd ==
    /\ callerRef # NoRef
    /\ \E n \in Nodes :
        /\ n \notin heap[callerRef]
        /\ heap' = [heap EXCEPT ![callerRef] = @ \cup {n}]
    /\ UNCHANGED <<heapRound, callerRef, callerSrc>>
    /\ UNCHANGED notHeapVars

\* The caller deletes a node from the set it was given.
CallerDelete ==
    /\ callerRef # NoRef
    /\ \E n \in heap[callerRef] :
        heap' = [heap EXCEPT ![callerRef] = @ \ {n}]
    /\ UNCHANGED <<heapRound, callerRef, callerSrc>>
    /\ UNCHANGED notHeapVars

HeapInit ==
    /\ heap = [o \in Objects |-> {}]
    /\ heapRound = NoRound
    /\ callerRef = NoRef
    /\ callerSrc = NoRef

HeapNext ==
    \/ CacheObjects
    \/ ReturnNodeSet
    \/ ReturnNotarySet
    \/ ReturnDKGSet
    \/ CallerAdd
    \/ CallerDelete

(***************************************************************************)
(* The test Network's caches (src/unnamed/part_002)                        *)
(***************************************************************************)
\* maxBlockCache, and the literal of the other three caches: 1000 in the
\* source, scaled down.
maxBlockCache == 2

\* The block hashes the network sees: enough to overfill a cache.
NetHashes == 1..(maxBlockCache + 2)

\* `if len(cache) > max { delete one entry }; cache[k] = v`: the caches the
\* insertion can leave; the range over a Go map deletes any one entry.
InsertCapped(cache, k) ==
    IF Cardinality(cache) > maxBlockCache
    THEN {(cache \ {old}) \cup {k} : old \in cache}
    ELSE {cache \cup {k}}

\* Network.addBlockToCache(b)
addBlockToCache ==
    /\ \E h \in NetHashes : blockCache' \in InsertCapped(blockCache, h)
    /\ UNCHANGED <<randomnessCache, sentAgreement, sentRandomness>>
    /\ UNCHANGED notNetVars

\* Network.addRandomnessToCache(rand)
addRandomnessToCache ==
    /\ \E h \in NetHashes :
        randomnessCache' \in InsertCapped(randomnessCache, h)
    /\ UNCHANGED <<blockCache, sentAgreement, sentRandomness>>
    /\ UNCHANGED notNetVars

\* Network.markAgreementResultAsSent(blockHash): false for a marked hash.
markAgreementResultAsSent ==
    /\ \E h \in NetHashes :
        IF h \in sentAgreement THEN UNCHANGED sentAgreement
        ELSE sentAgreement' \in InsertCapped(sentAgreement, h)
    /\ UNCHANGED <<blockCache, randomnessCache, sentRandomness>>
    /\ UNCHANGED notNetVars

\* Network.markRandomnessResultAsSent(blockHash): false for a marked hash.
markRandomnessResultAsSent ==
    /\ \E h \in NetHashes :
        IF h \in sentRandomness THEN UNCHANGED sentRandomness
        ELSE sentRandomness' \in InsertCapped(sentRandomness, h)
    /\ UNCHANGED <<blockCache, randomnessCache, sentAgreement>>
    /\ UNCHANGED notNetVars

\* NewNetwork: empty caches.
NetInit ==
    /\ blockCache = {}
    /\ randomnessCache = {}
    /\ sentAgreement = {}
    /\ sentRandomness = {}

NetNext ==
    \/ addBlockToCache
    \/ addRandomnessToCache
    \/ markAgreementResultAsSent
    \/ markRandomnessResultAsSent

(***************************************************************************)
(* DKG group public key and TSigVerifierCache                              *)
(* (src/core/dkg-tsig-protocol.go, src/core/consensus.go)                  *)
(***************************************************************************)
\* The node set of round 0; every node of it takes part in the DKG.
DkgNodes == {"d1", "d2", "d3"}

\* The nodes the complaints of the model accuse.
Accused == {"d1", "d2"}

\* gov.Configuration(round).DKGSetSize
DKGSetSize == 3

\* The most complaints governance lists for the round.
MaxComplaints == 3

\* newDKGID(ID): the DKG ID of a node.
DkgID(n) ==
    IF n = "d1" THEN 1 ELSE IF n = "d2" THEN 2 ELSE IF n = "d3" THEN 3 ELSE 4

\* The share proposer j computes for the holder of DKG ID id: its secret
\* polynomial evaluated at id, in a small field.
Share(j, id) == (DkgID(j) + (DkgID(j) + 1) * id) % 13

\* mpk.VerifyPrvShare(receiverID, share): the share lies on the proposer's
\* committed polynomial.
VerifyPrvShare(j, receiverID, share) == share = Share(j, receiverID)

\* A share that is not the one the proposer committed to (and is not empty).
BadShare(j, id) == (Share(j, id) % 12) + 1

\* The complaints of the model: complainer ProposerID accuses ShareProposerID
\* with the share it received from it, or with an empty share (a nack).
Complaints ==
    {[ProposerID |-> k, ShareProposerID |-> j, Share |-> sh] :
        k \in DkgNodes, j \in Accused, sh \in 0..12} \cap
    {c \in [ProposerID : DkgNodes, ShareProposerID : Accused, Share : 0..12] :
        /\ c.ProposerID # c.ShareProposerID
        /\ c.Share \in {0, Share(c.ShareProposerID, DkgID(c.ProposerID)),
                           BadShare(c.ShareProposerID, DkgID(c.ProposerID))}}

\* DKGComplaint.IsNack: the complaint carries no share.
IsNack(c) == c.Share = 0

RECURSIVE BagSum(_, _)
BagSum(bag, S) ==
    IF S = {} THEN 0
    ELSE LET c == CHOOSE x \in S : TRUE
         IN  bag[c] + BagSum(bag, S \ {c})

\* len(complaints)
BagSize(bag) == BagSum(bag, DOMAIN bag)

BagAdd(bag, c) ==
    [x \in DOMAIN bag \cup {c} |->
        IF x = c THEN (IF c \in DOMAIN bag THEN bag[c] + 1 ELSE 1) ELSE bag[x]]

\* complaintsByID[nID] after the loop over the complaints.
ComplaintsByID(complaints, nID) ==
    BagSum(complaints,
           {c \in DOMAIN complaints : IsNack(c) /\ c.ShareProposerID = nID})

\* disqualifyIDs: the accused of any complaint that is not a nack, and those
\* with more than threshold nack complaints.
DisqualifyIDs(complaints, threshold) ==
    {c.ShareProposerID : c \in {x \in DOMAIN complaints : ~IsNack(x)}}
        \cup {c.ShareProposerID :
                 c \in {x \in DOMAIN complaints :
                          /\ IsNack(x)
                          /\ ComplaintsByID(complaints, x.ShareProposerID)
                                > threshold}}

\* NewDKGGroupPublicKey(round, mpks, complaints, threshold).  The slice of
\* qualified IDs is made with capacity len(mpks)-len(disqualifyIDs): a
\* negative capacity panics.
NewDKGGroupPublicKey(round, mpks, complaints, threshold) ==
    LET disqualifyIDs == DisqualifyIDs(complaints, threshold)
    IN  IF Cardinality(mpks) - Cardinality(disqualifyIDs) < 0
        THEN [panic |-> TRUE, round |-> round, qualifyNodeIDs |-> {},
              threshold |-> threshold]
        ELSE [panic |-> FALSE, round |-> round,
              qualifyNodeIDs |-> mpks \ disqualifyIDs,
              threshold |-> threshold]

\* NewConsensus: cfgModule.registerDKG(0, len(nodes.IDs)/3)
RegisteredThreshold(nodeIDs) == Cardinality(nodeIDs) \div 3

\* TSigVerifierCache.Update: int(DKGSetSize/3)+1
UpdateThreshold(dkgSetSize) == (dkgSetSize \div 3) + 1

\* TSigVerifierCache.cacheSize
CacheSize == 1

\* The rounds whose DKG the model runs.
DkgRounds == {0}

\* The loop that advances minRound to the next cached round.
RECURSIVE AdvanceMinRound(_, _)
AdvanceMinRound(ver, mr) ==
    IF mr \in DOMAIN ver THEN mr ELSE AdvanceMinRound(ver, mr + 1)

\* consensusDKGReceiver.ProposeDKGMasterPublicKey -> gov.AddDKGMasterPublicKey
AddDKGMasterPublicKey ==
    \E n \in DkgNodes :
        /\ ~dkgFinal
        /\ n \notin govMpks
        /\ govMpks' = govMpks \cup {n}
        /\ UNCHANGED <<notDkgVars, govComplaints, antiNacks, dkgFinal, dkgThreshold,
                       verifier, minRound>>

\* consensusDKGReceiver.ProposeDKGComplaint -> gov.AddDKGComplaint
AddDKGComplaint ==
    \E c \in Complaints :
        /\ ~dkgFinal
        /\ BagSize(govComplaints) < MaxComplaints
        /\ govComplaints' = BagAdd(govComplaints, c)
        /\ UNCHANGED <<notDkgVars, govMpks, antiNacks, dkgFinal, dkgThreshold,
                       verifier, minRound>>

\* processNackComplaints -> ProposeDKGAntiNackComplaint: the accused of a nack
\* complaint reveals the complainer's share, which is broadcast.
ProposeDKGAntiNackComplaint ==
    \E c \in DOMAIN govComplaints :
        /\ ~dkgFinal
        /\ IsNack(c)
        /\ <<c.ProposerID, c.ShareProposerID>> \notin antiNacks
        /\ antiNacks' = antiNacks \cup {<<c.ProposerID, c.ShareProposerID>>}
        /\ UNCHANGED <<notDkgVars, govMpks, govComplaints, dkgFinal, dkgThreshold,
                       verifier, minRound>>

\* Governance marks the DKG of the round final.
DKGFinalize ==
    /\ ~dkgFinal
    /\ dkgFinal' = TRUE
    /\ UNCHANGED <<notDkgVars, govMpks, govComplaints, antiNacks, dkgThreshold,
                   verifier, minRound>>

\* TSigVerifierCache.Update(round)
TSigVerifierCacheUpdate ==
    \E round \in DkgRounds :
        /\ round >= minRound
        /\ round \notin DOMAIN verifier
        /\ dkgFinal
        /\ LET gpk == NewDKGGroupPublicKey(round, govMpks, govComplaints,
                                           UpdateThreshold(DKGSetSize))
               ver1 == [r \in DOMAIN verifier \cup {round} |->
                          IF r = round THEN gpk ELSE verifier[r]]
               mr1 == IF DOMAIN verifier = {} THEN round ELSE minRound
               ver2 == IF Cardinality(DOMAIN ver1) > CacheSize
                       THEN Restrict(ver1, DOMAIN ver1 \ {mr1}) ELSE ver1
           IN  /\ ~gpk.panic
               /\ verifier' = ver2
               /\ minRound' = AdvanceMinRound(ver2, mr1)
        /\ UNCHANGED <<notDkgVars, govMpks, govComplaints, antiNacks, dkgFinal,
                       dkgThreshold>>

DKGInit ==
    /\ govMpks = {}
    /\ govComplaints = <<>>
    /\ antiNacks = {}
    /\ dkgFinal = FALSE
    /\ dkgThreshold = RegisteredThreshold(DkgNodes)
    /\ verifier = <<>>
    /\ minRound = 0

DKGNext ==
    \/ AddDKGMasterPublicKey
    \/ AddDKGComplaint
    \/ ProposeDKGAntiNackComplaint
    \/ DKGFinalize
    \/ TSigVerifierCacheUpdate

(***************************************************************************)
(* TSigVerifierCache over many rounds (src/core/dkg-tsig-protocol.go)      *)
(***************************************************************************)
\* The largest round Update is called with.
MaxTcRound == 4

\* The largest cacheSize a cache is made with.
MaxCacheSize == 2

TcRounds == 0..MaxTcRound

\* What Update returned.
UpdateResult(round, ok, err, inserted, before) ==
    [round |-> round, ok |-> ok, err |-> err, inserted |-> inserted,
     before |-> before]

\* An eviction that deletes the round just inserted.
Evicted_Inserted(ver, mr, round) == Restrict(ver, DOMAIN ver \ {round})

\* delete(tc.verifier, tc.minRound)
Evicted(ver, mr, round) == Restrict(ver, DOMAIN ver \ {mr})

\* The tail of Update once the group public key is computed: minRound is set
\* for an empty cache, the key is stored, minRound's entry is deleted on
\* overflow, and minRound advances to the next cached round.  With no cached
\* round at or above minRound the loop runs on (the counter wraps after 2^64
\* steps).
StoreVerifier(ver, mr, size, round) ==
    LET mr1 == IF DOMAIN ver = {} THEN round ELSE mr
        ver1 == [r \in DOMAIN ver \cup {round} |-> "gpk"]
        ver2 == IF Cardinality(DOMAIN ver1) > size
                THEN Evicted(ver1, mr1, round) ELSE ver1
    IN  IF \E r \in DOMAIN ver2 : r >= mr1
        THEN [verifier |-> ver2, minRound |-> AdvanceMinRound(ver2, mr1),
              hung |-> FALSE]
        ELSE [verifier |-> ver2, minRound |-> mr1, hung |-> TRUE]

\* NewTSigVerifierCache(gov, cacheSize)
NewTSigVerifierCache ==
    /\ tcCacheSize = 0 - 1
    /\ tcCacheSize' \in 0..MaxCacheSize
    /\ UNCHANGED <<tcVerifier, tcMinRound, tcHung, tcLast, tcEver>>
    /\ UNCHANGED notTcVars

\* TSigVerifierCache.Update(round): governance says whether the DKG of the
\* round is final, and NewDKGGroupPublicKey may return an error.
VerifierCacheUpdate ==
    /\ tcCacheSize >= 0
    /\ ~tcHung
    /\ \E round \in TcRounds, final \in BOOLEAN, keyErr \in BOOLEAN :
        IF round < tcMinRound
        THEN /\ tcLast' = UpdateResult(round, FALSE, "ErrRoundAlreadyPurged",
                                       FALSE, DOMAIN tcVerifier)
             /\ UNCHANGED <<tcVerifier, tcMinRound, tcHung>>
        ELSE IF round \in DOMAIN tcVerifier
        THEN /\ tcLast' = UpdateResult(round, TRUE, Nil, FALSE,
                                       DOMAIN tcVerifier)
             /\ UNCHANGED <<tcVerifier, tcMinRound, tcHung>>
        ELSE IF ~final
        THEN /\ tcLast' = UpdateResult(round, FALSE, Nil, FALSE,
                                       DOMAIN tcVerifier)
             /\ UNCHANGED <<tcVerifier, tcMinRound, tcHung>>
        ELSE IF keyErr
        THEN /\ tcLast' = UpdateResult(round, FALSE, "ErrDKG", FALSE,
                                       DOMAIN tcVerifier)
             /\ UNCHANGED <<tcVerifier, tcMinRound, tcHung>>
        ELSE \E res \in {StoreVerifier(tcVerifier, tcMinRound, tcCacheSize,
                                       round)} :
             /\ tcVerifier' = res.verifier
             /\ tcMinRound' = res.minRound
             /\ tcHung' = res.hung
             /\ tcLast' = UpdateResult(round, TRUE, Nil, TRUE,
                                       DOMAIN tcVerifier)
    /\ tcEver' = IF tcLast'.inserted THEN tcEver \cup {tcLast'.round}
                 ELSE tcEver
    /\ UNCHANGED tcCacheSize
    /\ UNCHANGED notTcVars

\* TSigVerifierCache.Get(round)
VerifierCacheGet(round) == round \in DOMAIN tcVerifier

TcInit ==
    /\ tcVerifier = <<>>
    /\ tcMinRound = 0
    /\ tcCacheSize = 0 - 1
    /\ tcHung = FALSE
    /\ tcLast = UpdateResult(0, FALSE, Nil, FALSE, {})
    /\ tcEver = {}

TcNext == NewTSigVerifierCache \/ VerifierCacheUpdate

(***************************************************************************)
(* Consensus: the block pipeline (src/core/consensus.go)                   *)
(***************************************************************************)
\* The heights and the timestamps of the blocks of the model.
MaxHeight == 1
MaxTime == 2

\* The most candidate blocks the agreement modules hold altogether.
MaxCandidates == 2

\* currentConfig.MinBlockInterval and currentConfig.MaxBlockInterval
MinBlockInterval == 1
MaxBlockInterval == 1

\* This node, and another one whose key signs forged blocks.
ConNodes == {"p1", "p2"}

\* The chains of the configuration: rbModule.chainNum() is NumChains.
Chains == 0..(NumChains - 1)

\* hashBlock(b): the hash of the block's content.  Position and timestamp are
\* the content of a block of the model; the encoding is injective.
hashBlock(b) ==
    1 + b.Timestamp
      + (MaxTime + 1) * (b.Height
      + (MaxHeight + 1) * (b.ChainID + (NumChains + 1) * b.ShardID))

\* The largest hash of a block.
MaxHash == (MaxTime + 1) * (MaxHeight + 1) * (NumChains + 1) * 2

\* A block of this node: sealed is whether it carries the hash of its content
\* (0 is a hash no content has), signer the node SigToPub recovers.
Block(shardID, chainID, height, timestamp, sealed, signer) ==
    [ProposerID |-> "p1", ShardID |-> shardID, ChainID |-> chainID,
     Height |-> height, Timestamp |-> timestamp,
     Hash |-> IF sealed
              THEN hashBlock([ShardID |-> shardID, ChainID |-> chainID,
                              Height |-> height, Timestamp |-> timestamp])
              ELSE 0,
     Signer |-> signer]

\* The blocks that reach the node.
Blocks ==
    {Block(shardID, chainID, height, timestamp, sealed, signer) :
        shardID \in {0, 1}, chainID \in 0..NumChains, height \in 0..MaxHeight,
        timestamp \in 0..MaxTime, sealed \in BOOLEAN, signer \in ConNodes}

\* The block proposeBlock builds and signs for a chain at the time now.
NewBlock(chainID, height, now) == Block(0, chainID, height, now, TRUE, "p1")

\* types.Block.IsGenesis
IsGenesis(b) == b.Height = 0

\* rbModule.nextHeight(chainID) and rbModule.chainTime(chainID)
nextHeight(tip, chainID) == tip[chainID].Height + 1
chainTime(tip, chainID) == tip[chainID].Timestamp

\* Consensus.sanityCheck without the timestamp check.
sanityCheck_NoTime(tip, b) ==
    IF b.ShardID # 0 \/ b.ChainID >= NumChains
    THEN "ErrIncorrectBlockPosition"
    ELSE IF hashBlock(b) # b.Hash
    THEN "ErrIncorrectHash"
    ELSE IF b.Signer # b.ProposerID
    THEN "ErrIncorrectSignature"
    ELSE Nil

\* Consensus.sanityCheck: the error it returns, or Nil.
sanityCheck(tip, b) ==
    IF b.ShardID # 0 \/ b.ChainID >= NumChains
    THEN "ErrIncorrectBlockPosition"
    ELSE IF /\ ~IsGenesis(b)
            /\ \/ b.Timestamp < chainTime(tip, b.ChainID) + MinBlockInterval
               \/ b.Timestamp > chainTime(tip, b.ChainID) + MaxBlockInterval
    THEN "ErrIncorrectBlockTime"
    ELSE IF hashBlock(b) # b.Hash
    THEN "ErrIncorrectHash"
    ELSE IF b.Signer # b.ProposerID
    THEN "ErrIncorrectSignature"
    ELSE Nil

\* ---- reliable broadcast (rbModule) -------------------------------------
\* A buffered block that extends the tip of its chain, if there is one.
RECURSIVE RBAdmit(_)
RBAdmit(rb) ==
    LET next == {b \in rb.buffer : b.Height = nextHeight(rb.tip, b.ChainID)}
    IN  IF next = {} THEN rb
        ELSE LET b == CHOOSE x \in next : \A y \in next : x.Hash <= y.Hash
             IN  RBAdmit([tip |-> [rb.tip EXCEPT ![b.ChainID] =
                                      [Height |-> b.Height,
                                       Timestamp |-> b.Timestamp]],
                          buffer |-> {x \in rb.buffer :
                                        ~(x.ChainID = b.ChainID
                                          /\ x.Height <= b.Height)},
                          admitted |-> Append(rb.admitted, b),
                          err |-> Nil])

\* rbModule.processBlock(b): a block below the next height of its chain, or
\* one that is buffered already, is rejected; any other is buffered and
\* admitted once it extends the tip.
RBProcessBlock(rb, b) ==
    IF b.Height < nextHeight(rb.tip, b.ChainID) \/ b \in rb.buffer
    THEN [rb EXCEPT !.err = "ErrInvalidBlock"]
    ELSE RBAdmit([rb EXCEPT !.buffer = @ \cup {b}, !.err = Nil])

\* ---- total ordering (toModule) -----------------------------------------
\* The pending blocks are delivered chain by chain, lowest height first, once
\* more than phi * NumChains chains (phi = 2/3) have a pending block.
TOBatch(pending) ==
    LET chains == {b.ChainID : b \in pending}
    IN  IF Cardinality(chains) * 3 > 2 * NumChains
        THEN {b \in pending :
                \A x \in pending : x.ChainID = b.ChainID => b.Height <= x.Height}
        ELSE {}

\* The blocks of a batch in ascending order of their hashes.
RECURSIVE SortByHash(_)
SortByHash(S) ==
    IF S = {} THEN <<>>
    ELSE LET m == CHOOSE x \in S : \A y \in S : x.Hash <= y.Hash
         IN  <<m>> \o SortByHash(S \ {m})

\* ---- consensus timestamp (ctModule) ------------------------------------
NoTime == 0 - 1

\* The (lower) median of the chain tips' timestamps.
Median(tips) ==
    LET D == {c \in DOMAIN tips : tips[c] # NoTime}
        half == (Cardinality(D) + 1) \div 2
    IN  CHOOSE v \in {tips[c] : c \in D} :
            /\ Cardinality({c \in D : tips[c] <= v}) >= half
            /\ Cardinality({c \in D : tips[c] < v}) < half

\* The median without the clamp.
Clamp_None(median, prev) == median

\* The timestamp is clamped to the previous delivered block's.
Clamp(median, prev) == IF median < prev THEN prev ELSE median

\* ctModule.processBlocks(blocks): each block of the batch gets its consensus
\* timestamp; the result lists <<block, timestamp>> in the batch's order.
RECURSIVE CtProcessBlocks(_, _)
CtProcessBlocks(ct, blocks) ==
    IF blocks = <<>> THEN [ct EXCEPT !.stamped = <<>>]
    ELSE LET b == Head(blocks)
             tips == [ct.tips EXCEPT ![b.ChainID] = b.Timestamp]
             ts == Clamp(Median(tips), ct.prev)
             rest == CtProcessBlocks([tips |-> tips, prev |-> ts,
                                      stamped |-> <<>>], Tail(blocks))
         IN  [rest EXCEPT !.stamped = <<[block |-> b, ts |-> ts]>> \o @]

\* ---- application callbacks (nbModule) ----------------------------------
Event(ev, hashes, ts) == [ev |-> ev, hashes |-> hashes, ts |-> ts]

\* ---- Consensus.processBlock --------------------------------------------
\* A database call fails once budget calls have succeeded (NoFault: never).
NoFault == 0 - 1
Budgets == {NoFault} \cup 0..(2 * NumChains - 1)

Spend(budget) == IF budget > 0 THEN budget - 1 ELSE budget

\* for _, b := range deliveredBlocks { db.Put(*b) }
RECURSIVE PutBlocks(_, _)
PutBlocks(st, blocks) ==
    IF blocks = <<>> THEN st
    ELSE IF st.budget = 0 THEN [st EXCEPT !.err = "ErrBlockDB"]
    ELSE PutBlocks([st EXCEPT !.db = [h \in DOMAIN @ \cup {Head(blocks).Hash} |->
                                         IF h = Head(blocks).Hash THEN NoTime
                                         ELSE @[h]],
                              !.budget = Spend(@)],
                   Tail(blocks))

\* for _, b := range deliveredBlocks { cc.processBlock; db.Update;
\* BlockDelivered }
RECURSIVE DeliverBlocks(_, _)
DeliverBlocks(st, stamped) ==
    IF stamped = <<>> THEN st
    ELSE IF st.budget = 0 THEN [st EXCEPT !.err = "ErrBlockDB"]
    ELSE LET s == Head(stamped)
         IN  DeliverBlocks(
                 [st EXCEPT !.db = [@ EXCEPT ![s.block.Hash] = s.ts],
                            !.budget = Spend(@),
                            !.log = Append(@, Event("BlockDelivered",
                                                    <<s.block.Hash>>, s.ts))],
                 Tail(stamped))

\* The body of the loop over rbModule.extractBlocks().
RECURSIVE ProcessExtracted(_, _)
ProcessExtracted(st, extracted) ==
    IF extracted = <<>> THEN st
    ELSE LET b == Head(extracted)
             acked == [st EXCEPT !.log = Append(@, Event("StronglyAcked",
                                                         <<b.Hash>>, NoTime))]
             batch == TOBatch(st.to \cup {b})
             deliveredBlocks == SortByHash(batch)
             ordered == [acked EXCEPT !.to = (@ \cup {b}) \ batch]
             put == PutBlocks(ordered, deliveredBlocks)
             hashes == [i \in 1..Len(deliveredBlocks) |->
                           deliveredBlocks[i].Hash]
             told == [put EXCEPT !.log = Append(@,
                         Event("TotalOrderingDelivered", hashes, NoTime))]
             ct == CtProcessBlocks([tips |-> st.ctTips, prev |-> st.ctPrev,
                                    stamped |-> <<>>], deliveredBlocks)
             timed == [told EXCEPT !.ctTips = ct.tips, !.ctPrev = ct.prev]
             done == DeliverBlocks(timed, ct.stamped)
         IN  IF batch = {} THEN ProcessExtracted(ordered, Tail(extracted))
             ELSE IF put.err # Nil THEN put
             ELSE IF done.err # Nil THEN done
             ELSE ProcessExtracted(done, Tail(extracted))

Min(a, b) == IF a < b THEN a ELSE b

\* The pipeline as a call of processBlock finds it; err is the error the call
\* returns and budget the database calls left before one fails.
Pipeline(budget) ==
    [rbTip |-> rbTip, rbBuffer |-> rbBuffer, rbAdmitted |-> rbAdmitted,
     to |-> toPending, db |-> db, ctTips |-> ctTips, ctPrev |-> ctPrev,
     log |-> appLog, budget |-> budget, err |-> Nil]

\* The pipeline after rbModule.processBlock(b) and BlockConfirmed, with the
\* first k admitted blocks taken by extractBlocks.
Confirmed(st, rb, b, k) ==
    [st EXCEPT !.rbTip = rb.tip, !.rbBuffer = rb.buffer,
               !.rbAdmitted = SubSeq(rb.admitted, Min(k, Len(rb.admitted)) + 1,
                                     Len(rb.admitted)),
               !.log = Append(@, Event("BlockConfirmed", <<b.Hash>>, NoTime))]

\* Consensus.processBlock(block): the pipeline after it, with the error it
\* returns.  extractBlocks returns the first k admitted blocks: those the
\* blocks received so far ack strongly.
processBlock(b, k, budget) ==
    LET sanity == sanityCheck(rbTip, b)
        rb == RBProcessBlock([tip |-> rbTip, buffer |-> rbBuffer,
                              admitted |-> rbAdmitted, err |-> Nil], b)
    IN  IF sanity # Nil THEN [Pipeline(budget) EXCEPT !.err = sanity]
        ELSE IF rb.err # Nil THEN [Pipeline(budget) EXCEPT !.err = rb.err]
        ELSE ProcessExtracted(
                 Confirmed(Pipeline(budget), rb, b, k),
                 SubSeq(rb.admitted, 1, Min(k, Len(rb.admitted))))

\* The state of the pipeline after a call of processBlock.
Commit(r) ==
    /\ rbTip' = r.rbTip
    /\ rbBuffer' = r.rbBuffer
    /\ rbAdmitted' = r.rbAdmitted
    /\ toPending' = r.to
    /\ db' = r.db
    /\ ctTips' = r.ctTips
    /\ ctPrev' = r.ctPrev
    /\ appLog' = r.log

pipelineVars ==
    <<rbTip, rbBuffer, rbAdmitted, toPending, db, ctTips, ctPrev, appLog>>

\* ---- agreement (baModules) ---------------------------------------------
NumCandidates == Cardinality(UNION {candidates[c] : c \in Chains})

\* agreement.addCandidateBlock / agreement.processBlock: the block joins the
\* candidate blocks of its chain.
addCandidateBlock(cands, b) == [cands EXCEPT ![b.ChainID] = @ \cup {b}]

\* agreement.findCandidateBlock(hash)
findCandidateBlock(c, hash) == {b \in candidates[c] : b.Hash = hash}

\* Consensus.preProcessBlock(b): the error it returns, and the candidates
\* after it.
preProcessBlock(cands, b) ==
    LET err == sanityCheck(rbTip, b)
    IN  IF err # Nil THEN [err |-> err, candidates |-> cands]
        ELSE [err |-> Nil, candidates |-> addCandidateBlock(cands, b)]

\* What ProposeBlock did, for the handlers that are not ProposeBlock.
NoPropose ==
    [failed |-> FALSE, chain |-> 0, hash |-> 0, calls |-> {}, broadcast |-> FALSE]

\* runBA: a turn of BALoop that finds a value on restartNotary and restarts
\* the agreement at rbModule.nextHeight(chainID).
RunBALoop ==
    \E c \in Chains :
        /\ Len(restartNotary[c]) > 0
        /\ restartNotary' = [restartNotary EXCEPT ![c] = Tail(@)]
        /\ conErr' = Nil
        /\ ~conPanic /\ UNCHANGED conPanic /\ conPropose' = NoPropose
        /\ UNCHANGED <<notConVars, candidates, sendPending, pipelineVars>>

\* consensusBAReceiver.ProposeBlock: the block of proposeBlock is added to the
\* candidates, then pre-processed, then broadcast.  proposeBlock returns nil
\* when prepareBlock or SignCRS fails, and ProposeBlock hands that nil to
\* addCandidateBlock and preProcessBlock, where it is dereferenced
\* (sanityCheck reads b.Position): a run-time panic.  calls are the callees
\* the handler handed its block to; after an error of preProcessBlock it
\* returns without network.BroadcastBlock.
ProposeBlock ==
    \E c \in Chains, now \in 0..MaxTime, failed \in BOOLEAN :
        LET block == NewBlock(c, nextHeight(rbTip, c), now)
            pre == preProcessBlock(addCandidateBlock(candidates, block), block)
        IN  /\ ~conPanic
            /\ IF failed
               THEN /\ conPanic' = TRUE
                    /\ \E calls \in {{"addCandidateBlock"},
                                     {"addCandidateBlock", "preProcessBlock"}} :
                           conPropose' = [NoPropose EXCEPT !.failed = TRUE,
                                                           !.chain = c,
                                                           !.calls = calls]
                    /\ UNCHANGED <<candidates, conErr>>
               ELSE /\ block.Height <= MaxHeight
                    /\ NumCandidates < MaxCandidates
                    /\ candidates' = pre.candidates
                    /\ conErr' = pre.err
                    /\ conPropose' =
                           [failed |-> FALSE, chain |-> c, hash |-> block.Hash,
                            calls |-> {"addCandidateBlock", "preProcessBlock"},
                            broadcast |-> pre.err = Nil]
                    /\ UNCHANGED conPanic
            /\ UNCHANGED <<notConVars, restartNotary, sendPending,
                           pipelineVars>>

\* processMsg, case *types.Block: preProcessBlock(val), the error is logged.
ReceiveBlock(b) ==
    /\ NumCandidates < MaxCandidates
    /\ candidates' = preProcessBlock(candidates, b).candidates
    /\ conErr' = preProcessBlock(candidates, b).err
    /\ ~conPanic /\ UNCHANGED conPanic /\ conPropose' = NoPropose
    /\ UNCHANGED <<notConVars, restartNotary, sendPending, pipelineVars>>

ProcessMsgBlock == \E b \in Blocks : ReceiveBlock(b)

\* consensusBAReceiver.ConfirmBlock(hash) of the receiver of chain c: the
\* pipeline after it, with the error it logs.
confirmBlock(c, hash, k, budget) ==
    IF findCandidateBlock(c, hash) = {}
    THEN [Pipeline(budget) EXCEPT !.err = "ErrUnknownBlockConfirmed"]
    ELSE processBlock(CHOOSE b \in findCandidateBlock(c, hash) : TRUE,
                      k, budget)

\* ConfirmBlock sends whatever it logged.
Sends_Always(err) == <<FALSE>>

\* What ConfirmBlock sends on restartNotary: nothing after it logged an error
\* and returned, false otherwise.
Sends(err) == IF err # Nil THEN <<>> ELSE <<FALSE>>

\* ConfirmBlock as a step.  The send on restartNotary waits while the channel
\* is full.
ConfirmBlockOf(c, hash, k, budget) ==
    \E res \in {confirmBlock(c, hash, k, budget)} :
        /\ ~sendPending[c]
        /\ conErr' = res.err
        /\ ~conPanic /\ UNCHANGED conPanic /\ conPropose' = NoPropose
        /\ Commit(res)
        /\ IF Sends(res.err) = <<>>
           THEN UNCHANGED <<restartNotary, sendPending>>
           ELSE IF Len(restartNotary[c]) < 1
           THEN /\ restartNotary' =
                      [restartNotary EXCEPT ![c] = @ \o Sends(res.err)]
                /\ UNCHANGED sendPending
           ELSE /\ sendPending' = [sendPending EXCEPT ![c] = TRUE]
                /\ UNCHANGED restartNotary
        /\ UNCHANGED <<notConVars, candidates>>

\* What extractBlocks returns and when the database fails matters only to a
\* block that reaches the loop of processBlock.
ConfirmInputs(c, hash) ==
    IF confirmBlock(c, hash, 0, NoFault).err # Nil
    THEN {<<0, NoFault>>}
    ELSE (0..(Len(rbAdmitted) + Cardinality(rbBuffer) + 1)) \X Budgets

\* The agreement confirms the hash of a candidate, or one it has no block of.
ConfirmBlock ==
    \E c \in Chains :
        \E hash \in {b.Hash : b \in candidates[c]} \cup {0} :
            \E in \in ConfirmInputs(c, hash) :
                ConfirmBlockOf(c, hash, in[1], in[2])

\* ConfirmBlock, resumed: the send on restartNotary goes through.
ConfirmBlockSend ==
    \E c \in Chains :
        /\ sendPending[c]
        /\ Len(restartNotary[c]) < 1
        /\ restartNotary' = [restartNotary EXCEPT ![c] = Append(@, FALSE)]
        /\ sendPending' = [sendPending EXCEPT ![c] = FALSE]
        /\ conErr' = Nil
        /\ ~conPanic /\ UNCHANGED conPanic /\ conPropose' = NoPropose
        /\ UNCHANGED <<notConVars, candidates, pipelineVars>>

\* The state once Run has started runBA for every chain: each has sent true
\* on its restartNotary.
ConsensusInit ==
    /\ candidates = [c \in Chains |-> {}]
    /\ restartNotary = [c \in Chains |-> <<TRUE>>]
    /\ sendPending = [c \in Chains |-> FALSE]
    /\ rbTip = [c \in Chains |-> [Height |-> 0 - 1, Timestamp |-> 0]]
    /\ rbBuffer = {}
    /\ rbAdmitted = <<>>
    /\ toPending = {}
    /\ db = <<>>
    /\ ctTips = [c \in Chains |-> NoTime]
    /\ ctPrev = NoTime
    /\ appLog = <<>>
    /\ conErr = Nil
    /\ conPropose = NoPropose
    /\ conPanic = FALSE

ConsensusNext ==
    \/ RunBALoop
    \/ ProposeBlock
    \/ ProcessMsgBlock
    \/ ConfirmBlock
    \/ ConfirmBlockSend

(***************************************************************************)
(* Consensus.Run, its tasks and Stop (src/core/consensus.go)               *)
(***************************************************************************)
\* agreement.clocks(): the ticks a state of the agreement lasts.
Clocks == 2

\* The most sender goroutines of a chain the model lets wait at a time.
MaxSenders == 2

\* Consensus.Stop(): con.ctxCancel()
Stop ==
    /\ ~ctxDone
    /\ ctxDone' = TRUE
    /\ UNCHANGED <<msgPc, witnessPc, runBAPc, runBAClocks, tickSenders>>
    /\ UNCHANGED notRunVars

\* Run's loop: <-con.tickerObj.Tick(), then one goroutine per chain that sends
\* on the chain's unbuffered tick channel.  The loop does not look at con.ctx.
\* A chain that has MaxSenders goroutines waiting is counted no further.
Tick ==
    /\ \E c \in Chains : tickSenders[c] < MaxSenders
    /\ tickSenders' = [c \in Chains |->
                         IF tickSenders[c] < MaxSenders
                         THEN tickSenders[c] + 1 ELSE tickSenders[c]]
    /\ UNCHANGED <<ctxDone, msgPc, witnessPc, runBAPc, runBAClocks>>
    /\ UNCHANGED notRunVars

\* runBA receives a tick: `<-tick` before the loop, or one of the
\* agreement.clocks() receives of an iteration.  A sender goroutine ends.
RunBATick(c) ==
    /\ runBAPc[c] \in {"tick", "clocks"}
    /\ tickSenders[c] > 0
    /\ tickSenders' = [tickSenders EXCEPT ![c] = @ - 1]
    /\ IF runBAPc[c] = "tick"
       THEN /\ runBAPc' = [runBAPc EXCEPT ![c] = "check"]
            /\ UNCHANGED runBAClocks
       ELSE /\ runBAClocks' = [runBAClocks EXCEPT ![c] = @ - 1]
            /\ runBAPc' = [runBAPc EXCEPT ![c] =
                             IF runBAClocks[c] = 1 THEN "state" ELSE "clocks"]
    /\ UNCHANGED <<ctxDone, msgPc, witnessPc>>
    /\ UNCHANGED notRunVars

\* The head of BALoop: select { case <-con.ctx.Done(): break BALoop; default: }
RunBACheck(c) ==
    /\ runBAPc[c] = "check"
    /\ IF ctxDone
       THEN /\ runBAPc' = [runBAPc EXCEPT ![c] = "exited"]
            /\ UNCHANGED runBAClocks
       ELSE /\ runBAPc' = [runBAPc EXCEPT ![c] = "clocks"]
            /\ runBAClocks' = [runBAClocks EXCEPT ![c] = Clocks]
    /\ UNCHANGED <<ctxDone, msgPc, witnessPc, tickSenders>>
    /\ UNCHANGED notRunVars

\* The rest of an iteration: the restart, then agreement.nextState(), whose
\* error breaks the loop.
RunBAState(c) ==
    /\ runBAPc[c] = "state"
    /\ \E err \in BOOLEAN :
        runBAPc' = [runBAPc EXCEPT ![c] = IF err THEN "exited" ELSE "check"]
    /\ UNCHANGED <<ctxDone, msgPc, witnessPc, runBAClocks, tickSenders>>
    /\ UNCHANGED notRunVars

\* processMsg: select takes a message.
MsgReceive ==
    /\ msgPc = "select"
    /\ msgPc' = "handle"
    /\ UNCHANGED <<ctxDone, witnessPc, runBAPc, runBAClocks, tickSenders>>
    /\ UNCHANGED notRunVars

\* processMsg: the message is handled, back to the select.
MsgHandle ==
    /\ msgPc = "handle"
    /\ msgPc' = "select"
    /\ UNCHANGED <<ctxDone, witnessPc, runBAPc, runBAClocks, tickSenders>>
    /\ UNCHANGED notRunVars

\* processMsg: select takes <-con.ctx.Done() and returns.
MsgExit ==
    /\ msgPc = "select"
    /\ ctxDone
    /\ msgPc' = "exited"
    /\ UNCHANGED <<ctxDone, witnessPc, runBAPc, runBAClocks, tickSenders>>
    /\ UNCHANGED notRunVars

\* processWitnessData: select takes a processed block.
WitnessReceive ==
    /\ witnessPc = "select"
    /\ witnessPc' = "handle"
    /\ UNCHANGED <<ctxDone, msgPc, runBAPc, runBAClocks, tickSenders>>
    /\ UNCHANGED notRunVars

\* processWitnessData: the result is handled, back to the select.
WitnessHandle ==
    /\ witnessPc = "handle"
    /\ witnessPc' = "select"
    /\ UNCHANGED <<ctxDone, msgPc, runBAPc, runBAClocks, tickSenders>>
    /\ UNCHANGED notRunVars

\* processWitnessData: select takes <-con.ctx.Done() and returns.
WitnessExit ==
    /\ witnessPc = "select"
    /\ ctxDone
    /\ witnessPc' = "exited"
    /\ UNCHANGED <<ctxDone, msgPc, runBAPc, runBAClocks, tickSenders>>
    /\ UNCHANGED notRunVars

\* Run has started its tasks and reached its loop.
RunInit ==
    /\ ctxDone = FALSE
    /\ msgPc = "select"
    /\ witnessPc = "select"
    /\ runBAPc = [c \in Chains |-> "tick"]
    /\ runBAClocks = [c \in Chains |-> 0]
    /\ tickSenders = [c \in Chains |-> 0]

RunBA == \E c \in Chains : RunBATick(c) \/ RunBACheck(c) \/ RunBAState(c)

RunNext ==
    \/ Stop
    \/ Tick
    \/ RunBA
    \/ MsgReceive
    \/ MsgHandle
    \/ MsgExit
    \/ WitnessReceive
    \/ WitnessHandle
    \/ WitnessExit

\* The scheduler runs every goroutine that can take a step, the ticker keeps
\* ticking, and a select with several ready cases takes each of them sooner
\* or later.
RunFairness ==
    /\ WF_vars(Tick)
    /\ \A c \in Chains :
          WF_vars(RunBATick(c)) /\ WF_vars(RunBACheck(c))
              /\ WF_vars(RunBAState(c))
    /\ WF_vars(MsgHandle)
    /\ SF_vars(MsgExit)
    /\ WF_vars(WitnessHandle)
    /\ SF_vars(WitnessExit)

(***************************************************************************)
(* Byzantine agreement of one (chain, height)                              *)
(* (the agreement behind consensusBAReceiver, src/core/consensus.go)       *)
(***************************************************************************)
\* The notary set N_c of the position, and its Byzantine voters: f < n/3.
BaNodes == {"v1", "v2", "v3", "v4"}

Byzantine == {"v4"}

Honest == BaNodes \ Byzantine

MaxPeriod == 2

NumHashes == 2

\* The hash of a vote for no block.
SKIP == 0

BaHashes == 1..NumHashes

Periods == 1..MaxPeriod

\* A threshold of one third of the notary set plus one.
Threshold_OneThird(n) == n \div 3 + 1

\* T = floor(2|N_c|/3) + 1
Threshold(n) == (2 * n) \div 3 + 1

\* A voter can have received T votes of the period that agree on the hash:
\* the votes of honest voters reach it in any order and any number, and each
\* Byzantine voter shows it the vote that suits (a Byzantine voter that shows
\* one receiver two conflicting votes is excluded from its count, so one
\* vote each is the most they add).
Agree(votes, period, hash) ==
    Cardinality({v \in votes : v.period = period /\ v.hash = hash})
        + Cardinality(Byzantine) >= Threshold(Cardinality(BaNodes))

Vote(voter, period, hash) == [voter |-> voter, period |-> period, hash |-> hash]

HasVoted(votes, voter) ==
    \E v \in votes : v.voter = voter /\ v.period = baPeriod[voter]

\* Prepare: a voter with a preferred candidate votes for it; a locked voter
\* prefers the candidate it carries.
BAPrepare ==
    /\ \E i \in Honest, h \in BaHashes :
        /\ baConfirmed[i] = SKIP
        /\ ~HasVoted(baPrepareVotes, i)
        /\ baLock[i] # SKIP => h = baLock[i]
        /\ baPrepareVotes' = baPrepareVotes \cup {Vote(i, baPeriod[i], h)}
    /\ UNCHANGED <<baAckVotes, baLock, baPeriod, baConfirmed, baConfirmedAt>>
    /\ UNCHANGED notBaVars

\* Ack: Ack(h) if T Prepare votes agree on h, else Ack(SKIP).  The voter
\* that acks h is locked on h.
BAAck ==
    /\ \E i \in Honest, h \in BaHashes \cup {SKIP} :
        /\ baConfirmed[i] = SKIP
        /\ ~HasVoted(baAckVotes, i)
        /\ h # SKIP => Agree(baPrepareVotes, baPeriod[i], h)
        /\ baAckVotes' = baAckVotes \cup {Vote(i, baPeriod[i], h)}
        /\ baLock' = IF h # SKIP THEN [baLock EXCEPT ![i] = h] ELSE baLock
    /\ UNCHANGED <<baPrepareVotes, baPeriod, baConfirmed, baConfirmedAt>>
    /\ UNCHANGED notBaVars

\* Confirm: T Ack votes of a period agree on h # SKIP: ConfirmBlock(h).
BAConfirm ==
    /\ \E i \in Honest, h \in BaHashes, p \in Periods :
        /\ baConfirmed[i] = SKIP
        /\ Agree(baAckVotes, p, h)
        /\ baConfirmed' = [baConfirmed EXCEPT ![i] = h]
        /\ baConfirmedAt' = [baConfirmedAt EXCEPT ![i] = p]
    /\ UNCHANGED <<baPrepareVotes, baAckVotes, baLock, baPeriod>>
    /\ UNCHANGED notBaVars

\* Pass: the period timed out without confirmation; the next period starts
\* at Prepare and the locked candidate is carried.
BAPass ==
    /\ \E i \in Honest :
        /\ baConfirmed[i] = SKIP
        /\ baPeriod[i] < MaxPeriod
        /\ baPeriod' = [baPeriod EXCEPT ![i] = @ + 1]
    /\ UNCHANGED <<baPrepareVotes, baAckVotes, baLock, baConfirmed,
                   baConfirmedAt>>
    /\ UNCHANGED notBaVars

BAInit ==
    /\ baPrepareVotes = {}
    /\ baAckVotes = {}
    /\ baLock = [i \in Honest |-> SKIP]
    /\ baPeriod = [i \in Honest |-> 1]
    /\ baConfirmed = [i \in Honest |-> SKIP]
    /\ baConfirmedAt = [i \in Honest |-> 0]

BANext == BAPrepare \/ BAAck \/ BAConfirm \/ BAPass

(***************************************************************************)
(* Threshold signature: tsigProtocol (src/core/dkg-tsig-protocol.go)       *)
(***************************************************************************)
\* The order of the field the shares, keys and signatures live in.
FieldOrder == 13

Field == 0..(FieldOrder - 1)

\* The hashes a partial signature can be over.
Hashes == {2, 3}

\* The rounds a partial signature can be of.
PsigRounds == {0, 1}

FieldInv(a) == CHOOSE x \in 1..(FieldOrder - 1) : (a * x) % FieldOrder = 1

RECURSIVE FieldSum(_, _)
FieldSum(f, S) ==
    IF S = {} THEN 0
    ELSE LET x == CHOOSE y \in S : TRUE
         IN  (f[x] + FieldSum(f, S \ {x})) % FieldOrder

RECURSIVE FieldProduct(_, _)
FieldProduct(f, S) ==
    IF S = {} THEN 1
    ELSE LET x == CHOOSE y \in S : TRUE
         IN  (f[x] * FieldProduct(f, S \ {x})) % FieldOrder

\* The secret of a proposer's master key: its polynomial at 0.
MasterSecret(j) == Share(j, 0)

\* dkg.RecoverGroupPublicKey(pubShares): the sum of the qualified master
\* public keys (a public key is written as the secret it commits to).
RecoverGroupPublicKey(qualified) ==
    FieldSum([j \in qualified |-> MasterSecret(j)], qualified)

\* pubShares.RecoverPublicKey(qualifyIDs) for the receiver: the sum of the
\* shares the qualified proposers committed to for it.
RecoverPublicKey(qualified, n) ==
    FieldSum([j \in qualified |-> Share(j, DkgID(n))], qualified)

\* prvShares.RecoverPrivateKey(qualifyIDs): the sum of the shares the node
\* received from the qualified proposers.
RecoverPrivateKey(qualified, n) ==
    FieldSum([j \in qualified |-> Share(j, DkgID(n))], qualified)

\* privateKey.Sign(hash)
Sign(prvKey, hash) == (prvKey * hash) % FieldOrder

\* pubKey.VerifySignature(hash, sig)
VerifySignature(pubKey, hash, sig) == sig = (pubKey * hash) % FieldOrder

\* The Lagrange coefficient of id at 0 among ids.
Lagrange(ids, id) ==
    FieldProduct([x \in ids \ {id} |->
                    (x * FieldInv((x - id + FieldOrder) % FieldOrder))
                        % FieldOrder],
                 ids \ {id})

\* A sum of the partial signatures without the Lagrange coefficients.
RecoverSignature_Sum(sigs) == FieldSum(sigs, DOMAIN sigs)

\* dkg.RecoverSignature(psigs, ids): Lagrange interpolation at 0.
RecoverSignature(sigs) ==
    FieldSum([id \in DOMAIN sigs |->
                (sigs[id] * Lagrange(DOMAIN sigs, id)) % FieldOrder],
             DOMAIN sigs)

\* gpk.idMap: the DKG IDs of the qualified nodes.
IdMap(gpk) == [n \in gpk.qualifyNodeIDs |-> DkgID(n)]

\* gpk.publicKeys: the public keys of the qualified nodes.
PublicKeys(gpk) ==
    [n \in gpk.qualifyNodeIDs |-> RecoverPublicKey(gpk.qualifyNodeIDs, n)]

\* gpk.groupPublicKey
GroupPublicKey(gpk) == RecoverGroupPublicKey(gpk.qualifyNodeIDs)

\* The partial signatures of the model.  AuthOK: the authenticator's
\* signature of the message verifies.
PartialSignatures ==
    [ProposerID : DkgNodes, Round : PsigRounds, Hash : Hashes,
     PartialSignature : Field, AuthOK : BOOLEAN]

\* tsigProtocol.sanityCheck(psig)
tsigSanityCheck(gpk, hash, psig) ==
    IF psig.ProposerID \notin DOMAIN PublicKeys(gpk)
    THEN "ErrNotQualifyDKGParticipant"
    ELSE IF ~psig.AuthOK THEN "ErrIncorrectPartialSignatureSignature"
    ELSE IF psig.Hash # hash THEN "ErrMismatchPartialSignatureHash"
    ELSE Nil

\* A processPartialSignature that stores the signature without verifying it.
processPartialSignature_NoVerify(gpk, hash, sigs, psig) ==
    IF psig.Round # gpk.round THEN [err |-> Nil, sigs |-> sigs]
    ELSE IF psig.ProposerID \notin DOMAIN IdMap(gpk)
    THEN [err |-> "ErrNotQualifyDKGParticipant", sigs |-> sigs]
    ELSE IF tsigSanityCheck(gpk, hash, psig) # Nil
    THEN [err |-> tsigSanityCheck(gpk, hash, psig), sigs |-> sigs]
    ELSE [err |-> Nil,
          sigs |-> [id \in DOMAIN sigs \cup {IdMap(gpk)[psig.ProposerID]} |->
                      IF id = IdMap(gpk)[psig.ProposerID]
                      THEN psig.PartialSignature ELSE sigs[id]]]

\* tsigProtocol.processPartialSignature(psig): the error and tsig.sigs after.
processPartialSignature(gpk, hash, sigs, psig) ==
    IF psig.Round # gpk.round THEN [err |-> Nil, sigs |-> sigs]
    ELSE IF psig.ProposerID \notin DOMAIN IdMap(gpk)
    THEN [err |-> "ErrNotQualifyDKGParticipant", sigs |-> sigs]
    ELSE IF tsigSanityCheck(gpk, hash, psig) # Nil
    THEN [err |-> tsigSanityCheck(gpk, hash, psig), sigs |-> sigs]
    ELSE IF ~VerifySignature(PublicKeys(gpk)[psig.ProposerID], hash,
                             psig.PartialSignature)
    THEN [err |-> "ErrIncorrectPartialSignature", sigs |-> sigs]
    ELSE [err |-> Nil,
          sigs |-> [id \in DOMAIN sigs \cup {IdMap(gpk)[psig.ProposerID]} |->
                      IF id = IdMap(gpk)[psig.ProposerID]
                      THEN psig.PartialSignature ELSE sigs[id]]]

\* A signature() that interpolates whatever it has, without the threshold.
signature_NoThreshold(gpk, sigs) ==
    [sig |-> RecoverSignature(sigs), err |-> Nil]

\* A signature() that asks for one partial signature more than the threshold.
signature_OffByOne(gpk, sigs) ==
    IF Cardinality(DOMAIN sigs) <= gpk.threshold
    THEN [sig |-> 0, err |-> "ErrNotEnoughtPartialSignatures"]
    ELSE [sig |-> RecoverSignature(sigs), err |-> Nil]

\* tsigProtocol.signature()
signature(gpk, sigs) ==
    IF Cardinality(DOMAIN sigs) < gpk.threshold
    THEN [sig |-> 0, err |-> "ErrNotEnoughtPartialSignatures"]
    ELSE [sig |-> RecoverSignature(sigs), err |-> Nil]

\* No group public key: the tsigProtocol is not constructed yet.
NoGpk == [panic |-> TRUE, round |-> 0, qualifyNodeIDs |-> {}, threshold |-> 0]

\* signature() was not called since tsig.sigs changed.
NoOut == [sig |-> 0, err |-> "none"]

\* A partial signature arrives and is processed.
ProcessPartialSignature ==
    /\ tsigGpk # NoGpk
    /\ \E psig \in PartialSignatures :
        \E res \in {processPartialSignature(tsigGpk, tsigHash, tsigSigs, psig)} :
            /\ tsigErr' = res.err
            /\ tsigSigs' = res.sigs
            /\ tsigSenders' = IF res.sigs # tsigSigs
                              THEN tsigSenders \cup {psig.ProposerID}
                              ELSE tsigSenders
            /\ tsigOut' = IF res.sigs # tsigSigs THEN NoOut ELSE tsigOut
    /\ UNCHANGED <<tsigGpk, tsigHash>>
    /\ UNCHANGED notTsigVars

\* tsig.signature() is called.
Signature ==
    /\ tsigGpk # NoGpk
    /\ tsigOut' = signature(tsigGpk, tsigSigs)
    /\ UNCHANGED <<tsigGpk, tsigHash, tsigSigs, tsigSenders, tsigErr>>
    /\ UNCHANGED notTsigVars

\* The group public keys NewDKGGroupPublicKey computes from a round's master
\* public keys and at most one complaint.
GroupPublicKeys ==
    {NewDKGGroupPublicKey(0, mpks, complaints, UpdateThreshold(DKGSetSize)) :
        mpks \in SUBSET DkgNodes,
        complaints \in {<<>>} \cup {BagAdd(<<>>, c) : c \in Complaints}}

\* newTSigProtocol(gpk, hash)
newTSigProtocol ==
    /\ tsigGpk = NoGpk
    /\ tsigGpk' \in {gpk \in GroupPublicKeys : ~gpk.panic}
    /\ tsigHash' \in Hashes
    /\ tsigSigs' = <<>>
    /\ UNCHANGED <<tsigSenders, tsigErr, tsigOut>>
    /\ UNCHANGED notTsigVars

\* No tsigProtocol yet.
TSigInit ==
    /\ tsigGpk = NoGpk
    /\ tsigHash = 0
    /\ tsigSigs = <<>>
    /\ tsigSenders = {}
    /\ tsigErr = Nil
    /\ tsigOut = NoOut

TSigNext == newTSigProtocol \/ ProcessPartialSignature \/ Signature

(***************************************************************************)
(* The way of a vote from the transport to the agreement of its chain:     *)
(* Network.Run, Network.dispatchMsg (src/unnamed/part_002) and             *)
(* Consensus.processMsg (src/core/consensus.go).  A vote is named by the   *)
(* index of its arrival from the transport; all votes are for one height   *)
(* and period, so that a position is a chain.                              *)
(***************************************************************************)
\* How many votes the transport delivers.
MaxVotes == 4

\* The chain IDs of the votes peers send: those of the configuration, and
\* one that is not a chain.
VoteChains == 0..NumChains

\* The votes a Network keeps for pull requests (128 in the source).
maxVoteCache == 2

voteCacheSize == 
    LET RECURSIVE Sum(_)
        Sum(S) == IF S = {} THEN 0
                  ELSE LET p == CHOOSE q \in S : TRUE
                       IN  Cardinality(voteCache[p]) + Sum(S \ {p})
    IN  Sum(DOMAIN voteCache)

\* addVoteToCache_CountAll: a vote already cached is counted again.
addVoteToCache_CountAll(cache, positions, size, v) ==
    LET full    == size >= maxVoteCache
        kept    == IF full
                   THEN [p \in DOMAIN cache \ {Head(positions)} |-> cache[p]]
                   ELSE cache
        keptPos == IF full THEN Tail(positions) ELSE positions
        keptSize == IF full THEN size - Cardinality(cache[Head(positions)])
                    ELSE size
        known   == v.chain \in DOMAIN kept
        withPos == IF known THEN kept ELSE kept @@ (v.chain :> {})
    IN  [cache     |-> [withPos EXCEPT ![v.chain] = @ \cup {v.id}],
         positions |-> IF known THEN keptPos ELSE Append(keptPos, v.chain),
         size      |-> keptSize + 1]

\* addVoteToCache: the oldest position is dropped when the cache is full, the
\* vote's position gets an entry, and a vote already cached is not added
\* and not counted.  v.chain is the vote's Position, v.id its VoteHeader.
addVoteToCache(cache, positions, size, v) ==
    LET full    == size >= maxVoteCache
        kept    == IF full
                   THEN [p \in DOMAIN cache \ {Head(positions)} |-> cache[p]]
                   ELSE cache
        keptPos == IF full THEN Tail(positions) ELSE positions
        keptSize == IF full THEN size - Cardinality(cache[Head(positions)])
                    ELSE size
        known   == v.chain \in DOMAIN kept
        withPos == IF known THEN kept ELSE kept @@ (v.chain :> {})
    IN  [cache     |-> [withPos EXCEPT ![v.chain] = @ \cup {v.id}],
         positions |-> IF known THEN keptPos ELSE Append(keptPos, v.chain),
         size      |-> IF v.id \in withPos[v.chain] THEN keptSize
                       ELSE keptSize + 1]

\* Run: `case e, ok := <-n.fromTransport: go n.dispatchMsg(e)`.
NetworkRun ==
    /\ ~dispPanic /\ ~netPanic
    /\ ~netClosed
    /\ netArrived < MaxVotes
    /\ \E c \in VoteChains :
        /\ netArrived' = netArrived + 1
        /\ netDispatching' =
               netDispatching \cup {[chain |-> c, id |-> netArrived + 1]}
    /\ UNCHANGED <<voteCache, votePositions, toConsensus, baProcessed,
                   dispPanic, netClosed, netPanic, netStuck>>
    /\ UNCHANGED notDispVars

\* What a dispatchMsg goroutine finds in the field n.toConsensus when it
\* sends.  Close() writes the field with no lock held while the goroutines
\* read it: after Close a goroutine has either the channel, which is closed
\* (a send panics), or nil (a send blocks for ever).
ToConsensusRead == IF netClosed THEN {"closed", "nil"} ELSE {"open"}

\* One dispatchMsg goroutine, for a *types.Vote: the Go scheduler runs the
\* goroutines Run started in any order.  dispatchMsg adds the vote to the
\* cache and sends it on n.toConsensus.
DispatchMsg ==
    \E v \in netDispatching :
        /\ ~dispPanic /\ ~netPanic
        /\ netDispatching' = netDispatching \ {v}
        /\ \E r \in {addVoteToCache(voteCache, votePositions,
                                    voteCacheSize, v)} :
            /\ voteCache' = r.cache
            /\ votePositions' = r.positions
        /\ \E ch \in ToConsensusRead :
            CASE ch = "open" ->
                     /\ toConsensus' = Append(toConsensus, v)
                     /\ UNCHANGED <<netPanic, netStuck>>
              [] ch = "closed" ->
                     /\ netPanic' = TRUE
                     /\ UNCHANGED <<toConsensus, netStuck>>
              [] ch = "nil" ->
                     /\ netStuck' = netStuck \cup {v}
                     /\ UNCHANGED <<toConsensus, netPanic>>
        /\ UNCHANGED <<netArrived, baProcessed, dispPanic, netClosed>>
        /\ UNCHANGED notDispVars

\* Close(): n.ctxCancel(), close(n.toConsensus), n.toConsensus = nil,
\* close(n.toNode), n.toNode = nil.  Run leaves its loop; the dispatchMsg
\* goroutines it started are not waited for.
NetworkClose ==
    /\ ~dispPanic /\ ~netPanic
    /\ ~netClosed
    /\ netClosed' = TRUE
    /\ UNCHANGED <<netArrived, netDispatching, voteCache, votePositions,
                   toConsensus, baProcessed, dispPanic, netPanic, netStuck>>
    /\ UNCHANGED notDispVars

\* ProcessVote(vote): con.baModules[v.Position.ChainID].processVote(v).
\* baModules has NumChains elements, and indexing a slice out of its range
\* is a run-time panic, which nothing recovers.
ProcessVote(ba, v) ==
    IF v.chain \in DOMAIN ba
    THEN [ba |-> [ba EXCEPT ![v.chain] = Append(@, v.id)], panic |-> FALSE]
    ELSE [ba |-> ba, panic |-> TRUE]

\* processMsg: `case msg = <-msgChan`, then for a *types.Vote
\* con.ProcessVote(val), which gives it to baModules[v.Position.ChainID].
ProcessMsgVote ==
    /\ ~dispPanic /\ ~netPanic
    /\ toConsensus # <<>>
    /\ \E r \in {ProcessVote(baProcessed, Head(toConsensus))} :
        /\ baProcessed' = r.ba
        /\ dispPanic' = r.panic
    /\ toConsensus' = Tail(toConsensus)
    /\ UNCHANGED <<netArrived, netDispatching, voteCache, votePositions,
                   netClosed, netPanic, netStuck>>
    /\ UNCHANGED notDispVars

DispInit ==
    /\ netArrived = 0
    /\ netDispatching = {}
    /\ voteCache = <<>>
    /\ votePositions = <<>>
    /\ toConsensus = <<>>
    /\ baProcessed = [c \in Chains |-> <<>>]
    /\ dispPanic = FALSE
    /\ netClosed = FALSE
    /\ netPanic = FALSE
    /\ netStuck = {}

DispNext == NetworkRun \/ DispatchMsg \/ ProcessMsgVote \/ NetworkClose

(***************************************************************************)
(* The test App: what the application callbacks record, Compare and        *)
(* Verify.  src/unnamed/part_003 is the App's test; the App itself is not  *)
(* in src/, so that its methods follow the specification (S2) and the      *)
(* results the test requires.                                              *)
(***************************************************************************)
\* Block hashes are 1..NumAppHashes, consensus times 0..MaxAppTime.
NumAppHashes == 2
MaxAppTime == 1

\* How many blocks an App is delivered, and how many hashes it is given in
\* total-ordering batches.
MaxDeliver == 2
MaxOrdered == 2

AppHashes == 1..NumAppHashes
AppTimes == 0..MaxAppTime

NewApp == [Acked |-> {}, TotalOrdered |-> <<>>, DeliverSequence |-> <<>>]

\* The hashes of the total-ordering batches, one batch after the other.
RECURSIVE Concat(_)
Concat(batches) ==
    IF batches = <<>> THEN <<>>
    ELSE Head(batches).BlockHashes \o Concat(Tail(batches))

\* The sequences of 1..n hashes without a repetition.
HashSeqs(n) ==
    {s \in UNION {[1..k -> AppHashes] : k \in 1..n} :
        \A i, j \in DOMAIN s : i # j => s[i] # s[j]}

\* Compare_ReceiverOnly: the length of the receiver alone decides that a
\* deliver sequence is empty.
Compare_ReceiverOnly(a, o) ==
    LET da == a.DeliverSequence
        do == o.DeliverSequence
        minLength == IF Len(da) < Len(do) THEN Len(da) ELSE Len(do)
        RECURSIVE times(_)
        times(i) == IF i > minLength THEN Nil
                    ELSE IF da[i].time # do[i].time
                         THEN "ErrMismatchConsensusTime"
                         ELSE times(i + 1)
        RECURSIVE hashes(_)
        hashes(i) == IF i > minLength THEN times(1)
                     ELSE IF da[i].hash # do[i].hash
                          THEN "ErrMismatchBlockHashSequence"
                          ELSE hashes(i + 1)
    IN  IF Len(da) = 0 THEN "ErrEmptyDeliverSequence" ELSE hashes(1)

\* app.Compare(other): an empty deliver sequence on either side, then the
\* hashes position by position, then the consensus times.
Compare(a, o) ==
    LET da == a.DeliverSequence
        do == o.DeliverSequence
        minLength == IF Len(da) < Len(do) THEN Len(da) ELSE Len(do)
        RECURSIVE times(_)
        times(i) == IF i > minLength THEN Nil
                    ELSE IF da[i].time # do[i].time
                         THEN "ErrMismatchConsensusTime"
                         ELSE times(i + 1)
        RECURSIVE hashes(_)
        hashes(i) == IF i > minLength THEN times(1)
                     ELSE IF da[i].hash # do[i].hash
                          THEN "ErrMismatchBlockHashSequence"
                          ELSE hashes(i + 1)
    IN  IF minLength = 0 THEN "ErrEmptyDeliverSequence" ELSE hashes(1)

\* Verify_TimeFirst: the times are looked at before the acks.
Verify_TimeFirst(a) ==
    LET d == a.DeliverSequence
        RECURSIVE acked(_)
        acked(i) == IF i > Len(d)
                    THEN IF Concat(a.TotalOrdered) = [k \in DOMAIN d |-> d[k].hash]
                         THEN Nil
                         ELSE "ErrMismatchTotalOrderingAndDelivered"
                    ELSE IF d[i].hash \notin a.Acked
                         THEN "ErrDeliveredBlockNotAcked"
                         ELSE acked(i + 1)
        RECURSIVE ordered(_)
        ordered(i) == IF i > Len(d) THEN acked(1)
                      ELSE IF i > 1 /\ d[i].time < d[i - 1].time
                           THEN "ErrConsensusTimestampOutOfOrder"
                           ELSE ordered(i + 1)
    IN  ordered(1)

\* app.Verify(): every delivered block was strongly acked, the consensus
\* times do not go back, and the delivered hashes are those of the
\* total-ordering batches in their order.
Verify(a) ==
    LET d == a.DeliverSequence
        RECURSIVE ordered(_)
        ordered(i) == IF i > Len(d)
                      THEN IF Concat(a.TotalOrdered) = [k \in DOMAIN d |-> d[k].hash]
                           THEN Nil
                           ELSE "ErrMismatchTotalOrderingAndDelivered"
                      ELSE IF i > 1 /\ d[i].time < d[i - 1].time
                           THEN "ErrConsensusTimestampOutOfOrder"
                           ELSE ordered(i + 1)
        RECURSIVE acked(_)
        acked(i) == IF i > Len(d) THEN ordered(1)
                    ELSE IF d[i].hash \notin a.Acked
                         THEN "ErrDeliveredBlockNotAcked"
                         ELSE acked(i + 1)
    IN  acked(1)

\* The three callbacks an App records.
AppStronglyAcked(a, h) == [a EXCEPT !.Acked = @ \cup {h}]

AppTotalOrderingDeliver(a, hashes, early) ==
    [a EXCEPT !.TotalOrdered =
                  Append(@, [BlockHashes |-> hashes, Early |-> early])]

AppDeliverBlock(a, h, t) ==
    [a EXCEPT !.DeliverSequence = Append(@, [hash |-> h, time |-> t])]

StronglyAcked ==
    \E h \in AppHashes :
        /\ h \notin app.Acked
        /\ app' = AppStronglyAcked(app, h)
        /\ UNCHANGED appOther
        /\ UNCHANGED notAppVars

TotalOrderingDeliver ==
    \E hashes \in HashSeqs(MaxOrdered), early \in BOOLEAN :
        /\ Len(Concat(app.TotalOrdered)) + Len(hashes) <= MaxOrdered
        /\ app' = AppTotalOrderingDeliver(app, hashes, early)
        /\ UNCHANGED appOther
        /\ UNCHANGED notAppVars

DeliverBlock ==
    \E h \in AppHashes, t \in AppTimes :
        /\ Len(app.DeliverSequence) < MaxDeliver
        /\ app' = AppDeliverBlock(app, h, t)
        /\ UNCHANGED appOther
        /\ UNCHANGED notAppVars

\* The same callback on the other App.
OtherDeliverBlock ==
    \E h \in AppHashes, t \in AppTimes :
        /\ Len(appOther.DeliverSequence) < MaxDeliver
        /\ appOther' = AppDeliverBlock(appOther, h, t)
        /\ UNCHANGED app
        /\ UNCHANGED notAppVars

\* setupAppByTotalOrderDeliver: the hashes of a batch are strongly acked,
\* the batch is delivered by the total ordering, and each of its blocks is
\* delivered with the length of the deliver sequence as its time.
RECURSIVE deliverAll(_, _)
deliverAll(a, hashes) ==
    IF hashes = <<>> THEN a
    ELSE deliverAll(AppDeliverBlock(a, Head(hashes),
                                    Len(a.DeliverSequence)),
                    Tail(hashes))

setupAppByTotalOrderDeliver ==
    \E hashes \in HashSeqs(MaxOrdered) :
        /\ Len(Concat(app.TotalOrdered)) + Len(hashes) <= MaxOrdered
        /\ Len(app.DeliverSequence) + Len(hashes) <= MaxDeliver
        /\ Len(app.DeliverSequence) + Len(hashes) - 1 <= MaxAppTime
        /\ LET acked == [app EXCEPT !.Acked =
                            @ \cup {hashes[i] : i \in DOMAIN hashes}]
           IN  app' = deliverAll(
                          AppTotalOrderingDeliver(acked, hashes, FALSE),
                          hashes)
        /\ UNCHANGED appOther
        /\ UNCHANGED notAppVars

AppInit ==
    /\ app = NewApp
    /\ appOther = NewApp

AppNext ==
    \/ StronglyAcked \/ TotalOrderingDeliver \/ DeliverBlock
    \/ OtherDeliverBlock \/ setupAppByTotalOrderDeliver

(***************************************************************************)
(* Consensus.processBlock, step by step (src/core/consensus.go:564-625):   *)
(* the sanity check, con.lock, rbModule.processBlock and extractBlocks,    *)
(* and a turn of the loop per extracted block.  The receiver of a chain    *)
(* confirms blocks of its chain, one call at a time; the receivers of      *)
(* different chains run concurrently.                                      *)
(***************************************************************************)
NoLock == 0 - 1

\* How many calls of processBlock get past their sanity check.
MaxCalls == 3

\* The blocks the agreements confirm: well-formed blocks of this node.
PbBlocks ==
    {NewBlock(c, h, t) : c \in Chains, h \in 0..(MaxHeight + 1),
                         t \in 0..MaxTime}

NoBlock == NewBlock(0, 0, 0)

\* The blocks rbModule.processBlock admitted on top of those waiting for
\* extractBlocks before, each with the chain time in force when it was
\* admitted: the timestamp of the tip it extends.
Admissions(tip, new, checked) ==
    {[block   |-> new[i],
      seen    |-> checked[new[i].Hash],
      inForce |-> LET before == {j \in 1..(i - 1) :
                                    new[j].ChainID = new[i].ChainID}
                  IN  IF before = {} THEN chainTime(tip, new[i].ChainID)
                      ELSE new[CHOOSE j \in before :
                                  \A k \in before : k <= j].Timestamp]
        : i \in DOMAIN new}

\* processBlock up to con.lock.Lock(): sanityCheck(block), block.Clone().
PbSanityCheck(c) ==
    \E b \in PbBlocks :
        /\ b.ChainID = c
        /\ pbPc[c] = "idle"
        /\ IF sanityCheck(pbSt.rbTip, b) # Nil
           THEN UNCHANGED <<pbPc, pbBlock, pbSeen, pbCalls>>
           ELSE /\ pbCalls < MaxCalls
                /\ pbPc' = [pbPc EXCEPT ![c] = "lock"]
                /\ pbBlock' = [pbBlock EXCEPT ![c] = b]
                /\ pbSeen' = [pbSeen EXCEPT ![c] = chainTime(pbSt.rbTip, c)]
                /\ pbCalls' = pbCalls + 1
        /\ UNCHANGED <<pbTodo, conLock, rLocked, pbSt, pbChecked, pbAdmit,
                       pbExtracted>>
        /\ UNCHANGED notPbVars

\* Lock_NoWait: the call goes on whoever holds the lock.
Lock_NoWait(c) == TRUE

\* con.lock.Lock() returns once no call holds the lock and nobody reads.
Lock(c) == conLock = NoLock /\ ~rLocked

PbLock(c) ==
    /\ pbPc[c] = "lock"
    /\ Lock(c)
    /\ conLock' = c
    /\ pbPc' = [pbPc EXCEPT ![c] = "rb"]
    /\ UNCHANGED <<pbBlock, pbSeen, pbTodo, rLocked, pbSt, pbChecked,
                   pbAdmit, pbExtracted, pbCalls>>
    /\ UNCHANGED notPbVars

\* rbModule.processBlock(b); on an error the call returns, and the deferred
\* Unlock runs.  Otherwise BlockConfirmed and rbModule.extractBlocks(), which
\* returns the first k admitted blocks.
PbReliableBroadcast(c) ==
    /\ pbPc[c] = "rb"
    /\ \E rb \in {RBProcessBlock([tip |-> pbSt.rbTip,
                                  buffer |-> pbSt.rbBuffer,
                                  admitted |-> pbSt.rbAdmitted,
                                  err |-> Nil], pbBlock[c])} :
        IF rb.err # Nil
        THEN /\ pbPc' = [pbPc EXCEPT ![c] = "idle"]
             /\ conLock' = NoLock
             /\ UNCHANGED <<pbSt, pbTodo, pbChecked, pbAdmit, pbExtracted>>
        ELSE \E k \in 0..Len(rb.admitted) :
             /\ pbSt' = Confirmed(pbSt, rb, pbBlock[c], k)
             /\ pbTodo' = [pbTodo EXCEPT ![c] = SubSeq(rb.admitted, 1, k)]
             /\ pbExtracted' =
                    pbExtracted \o [i \in 1..k |-> rb.admitted[i].Hash]
             /\ pbChecked' =
                    [h \in DOMAIN pbChecked \cup {pbBlock[c].Hash} |->
                        IF h = pbBlock[c].Hash THEN pbSeen[c]
                        ELSE pbChecked[h]]
             /\ pbAdmit' = pbAdmit \cup
                    Admissions(pbSt.rbTip,
                               SubSeq(rb.admitted, Len(pbSt.rbAdmitted) + 1,
                                      Len(rb.admitted)),
                               pbChecked')
             /\ pbPc' = [pbPc EXCEPT ![c] = "loop"]
             /\ UNCHANGED conLock
    /\ UNCHANGED <<pbBlock, pbSeen, rLocked, pbCalls>>
    /\ UNCHANGED notPbVars

\* A turn of the loop over the extracted blocks: StronglyAcked, the total
\* ordering, and for a delivered batch the database, the consensus
\* timestamps, the compaction chain and BlockDelivered.
PbLoop(c) ==
    /\ pbPc[c] = "loop"
    /\ pbTodo[c] # <<>>
    /\ pbSt' = ProcessExtracted(pbSt, <<Head(pbTodo[c])>>)
    /\ pbTodo' = [pbTodo EXCEPT ![c] = Tail(@)]
    /\ UNCHANGED <<pbPc, pbBlock, pbSeen, conLock, rLocked, pbChecked,
                   pbAdmit, pbExtracted, pbCalls>>
    /\ UNCHANGED notPbVars

\* The loop is over: processBlock returns and the deferred Unlock runs.
PbReturn(c) ==
    /\ pbPc[c] = "loop"
    /\ pbTodo[c] = <<>>
    /\ pbPc' = [pbPc EXCEPT ![c] = "idle"]
    /\ conLock' = NoLock
    /\ UNCHANGED <<pbBlock, pbSeen, pbTodo, rLocked, pbSt, pbChecked,
                   pbAdmit, pbExtracted, pbCalls>>
    /\ UNCHANGED notPbVars

\* prepareBlock: con.lock.RLock() ... rbModule.prepareBlock(b) ...
\* con.lock.RUnlock().
PrepareBlockRLock ==
    /\ ~rLocked
    /\ conLock = NoLock
    /\ rLocked' = TRUE
    /\ UNCHANGED <<pbPc, pbBlock, pbSeen, pbTodo, conLock, pbSt, pbChecked,
                   pbAdmit, pbExtracted, pbCalls>>
    /\ UNCHANGED notPbVars

PrepareBlockRUnlock ==
    /\ rLocked
    /\ rLocked' = FALSE
    /\ UNCHANGED <<pbPc, pbBlock, pbSeen, pbTodo, conLock, pbSt, pbChecked,
                   pbAdmit, pbExtracted, pbCalls>>
    /\ UNCHANGED notPbVars

PbInit ==
    /\ pbPc = [c \in Chains |-> "idle"]
    /\ pbBlock = [c \in Chains |-> NoBlock]
    /\ pbSeen = [c \in Chains |-> 0]
    /\ pbTodo = [c \in Chains |-> <<>>]
    /\ conLock = NoLock
    /\ rLocked = FALSE
    /\ pbSt = [rbTip |-> [c \in Chains |-> [Height |-> 0 - 1, Timestamp |-> 0]],
               rbBuffer |-> {}, rbAdmitted |-> <<>>, to |-> {}, db |-> <<>>,
               ctTips |-> [c \in Chains |-> NoTime], ctPrev |-> NoTime,
               log |-> <<>>, budget |-> NoFault, err |-> Nil]
    /\ pbChecked = <<>>
    /\ pbAdmit = {}
    /\ pbExtracted = <<>>
    /\ pbCalls = 0

PbNext ==
    \/ \E c \in Chains :
           \/ PbSanityCheck(c) \/ PbLock(c) \/ PbReliableBroadcast(c)
           \/ PbLoop(c) \/ PbReturn(c)
    \/ PrepareBlockRLock \/ PrepareBlockRUnlock

(***************************************************************************)
(* runBA and the restarts of the agreement of a chain                      *)
(* (src/core/consensus.go:329-371, ConfirmBlock at 95-107).  The ticks and *)
(* the cancellation of runBA are in the section on Run and Stop.           *)
(***************************************************************************)
\* The state steps of an agreement that are counted since its restart.
MaxSteps == 2

\* gov.GetConfiguration(con.round).NumNotarySet, as governance answers.
NotarySizes == 1..(NumNotarySet + 1)

\* con.round: NewConsensus leaves it 0.
ConRound == 0

\* notarySubset_Always: the subset is derived anew on every signal.
notarySubset_Always(newNotary, nIDs, size, c) ==
    GetSubSet(Nodes, size, NotarySetTarget(CRS(ConRound), c))

\* nIDs after the signal: on true the subset of the round's node set under
\* the notary target of the chain, on false what it was.
notarySubset(newNotary, nIDs, size, c) ==
    IF newNotary
    THEN GetSubSet(Nodes, size, NotarySetTarget(CRS(ConRound), c))
    ELSE nIDs

\* runBA before BALoop: recv.restartNotary <- true.
RunBAStart(c) ==
    /\ raPc[c] = "start"
    /\ Len(raChan[c]) < 1
    /\ raChan' = [raChan EXCEPT ![c] = Append(@, TRUE)]
    /\ raPc' = [raPc EXCEPT ![c] = "select"]
    /\ UNCHANGED <<raPending, raNextHeight, raNIDs, raAgreement, raLast>>
    /\ UNCHANGED notRaVars

\* case newNotary := <-recv.restartNotary: agreement.restart(nIDs, aID) at
\* the height rbModule.nextHeight(chainID).
RunBARestart(c) ==
    /\ raPc[c] = "select"
    /\ raChan[c] # <<>>
    /\ \E size \in NotarySizes :
        \E nIDs \in {notarySubset(Head(raChan[c]), raNIDs[c], size, c)} :
            /\ raNIDs' = [raNIDs EXCEPT ![c] = nIDs]
            /\ raAgreement' =
                   [raAgreement EXCEPT ![c] =
                       [notarySet |-> nIDs, height |-> raNextHeight[c],
                        steps |-> 0]]
            /\ raLast' =
                   [raLast EXCEPT ![c] =
                       [received |-> TRUE, newNotary |-> Head(raChan[c]),
                        size |-> IF Head(raChan[c]) THEN size ELSE 0]]
    /\ raChan' = [raChan EXCEPT ![c] = Tail(@)]
    /\ raPc' = [raPc EXCEPT ![c] = "state"]
    /\ UNCHANGED <<raPending, raNextHeight>>
    /\ UNCHANGED notRaVars

\* The default case of the select: nothing is on restartNotary.
RunBANoRestart(c) ==
    /\ raPc[c] = "select"
    /\ raChan[c] = <<>>
    /\ raLast' = [raLast EXCEPT ![c] =
                     [received |-> FALSE, newNotary |-> FALSE, size |-> 0]]
    /\ raPc' = [raPc EXCEPT ![c] = "state"]
    /\ UNCHANGED <<raChan, raPending, raNextHeight, raNIDs, raAgreement>>
    /\ UNCHANGED notRaVars

\* agreement.nextState(): a state step, or an error that ends BALoop.
RunBANextState(c) ==
    /\ raPc[c] = "state"
    /\ \E err \in BOOLEAN :
        IF err
        THEN /\ raPc' = [raPc EXCEPT ![c] = "exited"]
             /\ UNCHANGED raAgreement
        ELSE /\ raPc' = [raPc EXCEPT ![c] = "select"]
             /\ raAgreement' =
                    [raAgreement EXCEPT ![c].steps =
                        IF @ < MaxSteps THEN @ + 1 ELSE @]
    /\ UNCHANGED <<raChan, raPending, raNextHeight, raNIDs, raLast>>
    /\ UNCHANGED notRaVars

\* ConfirmBlock of the chain's receiver: processBlock admits the block, then
\* `recv.restartNotary <- false`, which waits while the channel is full.
RaConfirmBlock(c) ==
    /\ ~raPending[c]
    /\ raNextHeight[c] <= MaxHeight
    /\ raNextHeight' = [raNextHeight EXCEPT ![c] = @ + 1]
    /\ IF Len(raChan[c]) < 1
       THEN /\ raChan' = [raChan EXCEPT ![c] = Append(@, FALSE)]
            /\ UNCHANGED raPending
       ELSE /\ raPending' = [raPending EXCEPT ![c] = TRUE]
            /\ UNCHANGED raChan
    /\ UNCHANGED <<raPc, raNIDs, raAgreement, raLast>>
    /\ UNCHANGED notRaVars

RaConfirmBlockSend(c) ==
    /\ raPending[c]
    /\ Len(raChan[c]) < 1
    /\ raChan' = [raChan EXCEPT ![c] = Append(@, FALSE)]
    /\ raPending' = [raPending EXCEPT ![c] = FALSE]
    /\ UNCHANGED <<raPc, raNextHeight, raNIDs, raAgreement, raLast>>
    /\ UNCHANGED notRaVars

\* NewConsensus: every agreement starts with the node set of round 0 as its
\* notary set; runBA starts with an empty nIDs.
RaInit ==
    /\ raPc = [c \in Chains |-> "start"]
    /\ raChan = [c \in Chains |-> <<>>]
    /\ raPending = [c \in Chains |-> FALSE]
    /\ raNextHeight = [c \in Chains |-> 0]
    /\ raNIDs = [c \in Chains |-> {}]
    /\ raAgreement = [c \in Chains |->
                         [notarySet |-> Nodes, height |-> 0, steps |-> 0]]
    /\ raLast = [c \in Chains |->
                    [received |-> FALSE, newNotary |-> FALSE, size |-> 0]]

RaNext ==
    \E c \in Chains :
        \/ RunBAStart(c) \/ RunBARestart(c) \/ RunBANoRestart(c)
        \/ RunBANextState(c) \/ RaConfirmBlock(c) \/ RaConfirmBlockSend(c)

\* The Go scheduler runs every goroutine that can take a step: runBA, and
\* the sender that waits in ConfirmBlock.  That blocks get confirmed is not
\* required.
RaFairness ==
    \A c \in Chains :
        /\ WF_vars(RunBAStart(c)) /\ WF_vars(RunBARestart(c))
        /\ WF_vars(RunBANoRestart(c)) /\ WF_vars(RunBANextState(c))
        /\ WF_vars(RaConfirmBlockSend(c))

(***************************************************************************)
(* dkgProtocol: one participant of the DKG of a round                      *)
(* (src/core/dkg-tsig-protocol.go:126-320, consensus.go:117-163).          *)
(***************************************************************************)
\* The private shares processed in a run.
MaxShareMsgs == 2

\* The complaints in the list given to processNackComplaints and
\* enforceNackComplaints.
MaxComplaintList == 2

\* The nodes that send DKG messages; Self is this node (d.ID).
DpNodes == DkgNodes \cup {"d4"}
Self == "d1"

\* d.round, and another round.
DpRound == 0
DpRounds == {0, 1}

\* A DKGPrivateShare: SigOK is what verifyDKGPrivateShareSignature finds.
DpShares ==
    [ProposerID : DpNodes, ReceiverID : DpNodes, Round : DpRounds,
     Good : BOOLEAN, SigOK : BOOLEAN]

\* The share of the message: the one its proposer committed to, or another.
ShareOf(p) ==
    IF p.Good THEN Share(p.ProposerID, DkgID(p.ReceiverID))
    ELSE BadShare(p.ProposerID, DkgID(p.ReceiverID))

\* The DKGComplaint d proposes with a private share attached, and the nack
\* complaint (its PrivateShare holds the accused and the round only).
Complaint(prvShare) ==
    [ProposerID |-> Self, ShareProposerID |-> prvShare.ProposerID,
     ReceiverID |-> prvShare.ReceiverID, Share |-> ShareOf(prvShare)]

NackComplaint(from, to) ==
    [ProposerID |-> from, ShareProposerID |-> to, ReceiverID |-> Nil,
     Share |-> 0]

\* The private share d has for a node, which is also what it reveals to a
\* complainer: masterPrivateShare.Share(id).
AntiNack(complainer) ==
    [ProposerID |-> Self, ReceiverID |-> complainer, Round |-> DpRound,
     Good |-> TRUE, SigOK |-> TRUE]

\* What a call returned and proposed: complaints and anti-nacks in the order
\* of the calls on d.recv, nacks for those proposed in the order of a map.
NoOutput ==
    [err |-> Nil, complaints |-> <<>>, antiNacks |-> <<>>, nacks |-> {},
     shares |-> {}]

newDKGProtocol ==
    [idMap |-> {}, prvSharesReceived |-> {}, nodeComplained |-> {},
     antiComplaintReceived |-> <<>>, prvShares |-> {}]

\* processMasterPublicKeys(mpks): idMap, mpkMap and prvSharesReceived are
\* made anew.
processMasterPublicKeys(d, mpks) ==
    [d EXCEPT !.idMap = mpks, !.prvSharesReceived = {}]

\* processPrivateShare_MarkValid: a share counts as received once it
\* verified.
processPrivateShare_MarkValid(d, p) ==
    LET j == p.ProposerID
        k == p.ReceiverID
        ok == VerifyPrvShare(j, DkgID(k), ShareOf(p))
    IN  IF p.Round # DpRound \/ k \notin d.idMap
        THEN [d |-> d, out |-> NoOutput]
        ELSE IF j \notin d.idMap
        THEN [d |-> d, out |-> [NoOutput EXCEPT !.err = "ErrNotDKGParticipant"]]
        ELSE IF ~p.SigOK
        THEN [d |-> d, out |-> [NoOutput EXCEPT
                                   !.err = "ErrIncorrectPrivateShareSignature"]]
        ELSE IF ~ok
        THEN IF j \in d.nodeComplained
             THEN [d |-> d, out |-> NoOutput]
             ELSE [d |-> [d EXCEPT !.nodeComplained = @ \cup {j}],
                   out |-> [NoOutput EXCEPT !.complaints = <<Complaint(p)>>]]
        ELSE IF k = Self
        THEN [d |-> [d EXCEPT !.prvShares = @ \cup {j},
                              !.prvSharesReceived = @ \cup {j}],
              out |-> NoOutput]
        ELSE IF k \notin DOMAIN d.antiComplaintReceived
        THEN [d |-> [d EXCEPT !.antiComplaintReceived = @ @@ (k :> {j})],
              out |-> [NoOutput EXCEPT !.antiNacks = <<p>>]]
        ELSE [d |-> [d EXCEPT !.antiComplaintReceived[k] = @ \cup {j}],
              out |-> NoOutput]

\* processPrivateShare_Always: nodeComplained is not looked at.
processPrivateShare_Always(d, p) ==
    LET j == p.ProposerID
        k == p.ReceiverID
        ok == VerifyPrvShare(j, DkgID(k), ShareOf(p))
        d1 == IF k = Self THEN [d EXCEPT !.prvSharesReceived = @ \cup {j}]
              ELSE d
    IN  IF p.Round # DpRound \/ k \notin d.idMap
        THEN [d |-> d, out |-> NoOutput]
        ELSE IF j \notin d.idMap
        THEN [d |-> d, out |-> [NoOutput EXCEPT !.err = "ErrNotDKGParticipant"]]
        ELSE IF ~p.SigOK
        THEN [d |-> d, out |-> [NoOutput EXCEPT
                                   !.err = "ErrIncorrectPrivateShareSignature"]]
        ELSE IF ~ok
        THEN [d |-> [d1 EXCEPT !.nodeComplained = @ \cup {j}],
              out |-> [NoOutput EXCEPT !.complaints = <<Complaint(p)>>]]
        ELSE IF k = Self
        THEN [d |-> [d1 EXCEPT !.prvShares = @ \cup {j}], out |-> NoOutput]
        ELSE IF k \notin DOMAIN d.antiComplaintReceived
        THEN [d |-> [d1 EXCEPT !.antiComplaintReceived = @ @@ (k :> {j})],
              out |-> [NoOutput EXCEPT !.antiNacks = <<p>>]]
        ELSE [d |-> [d1 EXCEPT !.antiComplaintReceived[k] = @ \cup {j}],
              out |-> NoOutput]

\* processPrivateShare(prvShare): d after the call, and what it returned and
\* proposed.
processPrivateShare(d, p) ==
    LET j == p.ProposerID
        k == p.ReceiverID
        ok == VerifyPrvShare(j, DkgID(k), ShareOf(p))
        d1 == IF k = Self THEN [d EXCEPT !.prvSharesReceived = @ \cup {j}]
              ELSE d
    IN  IF p.Round # DpRound \/ k \notin d.idMap
        THEN [d |-> d, out |-> NoOutput]
        ELSE IF j \notin d.idMap
        THEN [d |-> d, out |-> [NoOutput EXCEPT !.err = "ErrNotDKGParticipant"]]
        ELSE IF ~p.SigOK
        THEN [d |-> d, out |-> [NoOutput EXCEPT
                                   !.err = "ErrIncorrectPrivateShareSignature"]]
        ELSE IF ~ok
        THEN IF j \in d.nodeComplained
             THEN [d |-> d1, out |-> NoOutput]
             ELSE [d |-> [d1 EXCEPT !.nodeComplained = @ \cup {j}],
                   out |-> [NoOutput EXCEPT !.complaints = <<Complaint(p)>>]]
        ELSE IF k = Self
        THEN [d |-> [d1 EXCEPT !.prvShares = @ \cup {j}], out |-> NoOutput]
        ELSE IF k \notin DOMAIN d.antiComplaintReceived
        THEN [d |-> [d1 EXCEPT !.antiComplaintReceived = @ @@ (k :> {j})],
              out |-> [NoOutput EXCEPT !.antiNacks = <<p>>]]
        ELSE [d |-> [d1 EXCEPT !.antiComplaintReceived[k] = @ \cup {j}],
              out |-> NoOutput]

\* proposeNackComplaints(): the complaints it proposes (the loop is over a
\* map, in any order).
proposeNackComplaints(d) ==
    {NackComplaint(Self, nID) : nID \in d.idMap \ d.prvSharesReceived}

\* processNackComplaints_Stop: the first error ends the loop.
RECURSIVE processNackComplaints_Stop(_, _)
processNackComplaints_Stop(d, complaints) ==
    IF complaints = <<>> THEN NoOutput
    ELSE LET c == Head(complaints)
         IN  IF ~IsNack(c) \/ c.ShareProposerID # Self
             THEN processNackComplaints_Stop(d, Tail(complaints))
             ELSE IF c.ProposerID \notin d.idMap
             THEN [NoOutput EXCEPT !.err = "ErrNotDKGParticipant"]
             ELSE [processNackComplaints_Stop(d, Tail(complaints)) EXCEPT
                      !.antiNacks = <<AntiNack(c.ProposerID)>> \o @]

\* processNackComplaints(complaints): the anti-nacks it proposes, in the
\* order of the complaints, and the error it returns (that of the last
\* complaint that had one).
RECURSIVE processNackComplaints(_, _)
processNackComplaints(d, complaints) ==
    IF complaints = <<>> THEN NoOutput
    ELSE LET c == Head(complaints)
             rest == processNackComplaints(d, Tail(complaints))
         IN  IF ~IsNack(c) \/ c.ShareProposerID # Self THEN rest
             ELSE IF c.ProposerID \notin d.idMap
             THEN [rest EXCEPT !.err = IF @ = Nil THEN "ErrNotDKGParticipant"
                                       ELSE @]
             ELSE [rest EXCEPT !.antiNacks = <<AntiNack(c.ProposerID)>> \o @]

\* enforceNackComplaints(complaints): the nack complaints it proposes.
RECURSIVE enforceNackComplaints(_, _)
enforceNackComplaints(d, complaints) ==
    IF complaints = <<>> THEN <<>>
    ELSE LET c == Head(complaints)
             to == c.ShareProposerID
             from == c.ProposerID
             rest == enforceNackComplaints(d, Tail(complaints))
             exist == /\ from \in DOMAIN d.antiComplaintReceived
                      /\ to \in d.antiComplaintReceived[from]
         IN  IF ~IsNack(c) \/ to = Self \/ from = Self \/ exist
             THEN rest
             ELSE <<NackComplaint(Self, to)>> \o rest

\* recoverShareSecret(qualifyIDs) of a participant with threshold t: the
\* share secret is recovered from the private shares of the qualified nodes
\* (prvShares.RecoverPrivateKey fails on a missing share).
recoverShareSecret(d, qualifyIDs, t) ==
    IF Cardinality(qualifyIDs) < t
    THEN [err |-> "ErrNotReachThreshold", secret |-> {}]
    ELSE IF ~(qualifyIDs \subseteq d.prvShares)
    THEN [err |-> "ErrShareNotFound", secret |-> {}]
    ELSE [err |-> Nil, secret |-> qualifyIDs]

\* The complaints governance lists: nack complaints, and complaints with a
\* share attached.
DpComplaints ==
    [ProposerID : {"d1", "d2", "d4"}, ShareProposerID : {"d1", "d3"},
     ReceiverID : {Nil}, Share : {0, 1}]

ComplaintLists ==
    UNION {[1..n -> DpComplaints] : n \in 0..MaxComplaintList}

DpProcessMasterPublicKeys ==
    \E mpks \in {DpNodes, DpNodes \ {"d4"}} :
        /\ dp.idMap = {}
        /\ dp' = processMasterPublicKeys(dp, mpks)
        /\ dpOut' = [NoOutput EXCEPT !.shares = {AntiNack(n) : n \in mpks}]
        /\ UNCHANGED <<dpArrived, dpAntiSeen, dpComplained, dpShareMsgs>>
        /\ UNCHANGED notDpVars

DpProcessPrivateShare ==
    \E p \in DpShares :
        /\ dp.idMap # {}
        /\ dpShareMsgs < MaxShareMsgs
        /\ dpShareMsgs' = dpShareMsgs + 1
        /\ \E r \in {processPrivateShare(dp, p)} :
            /\ dp' = r.d
            /\ dpOut' = r.out
            /\ dpComplained' =
                   IF r.out.complaints = <<>> THEN dpComplained
                   ELSE [dpComplained EXCEPT ![p.ProposerID] = @ + 1]
        /\ dpArrived' =
               IF /\ p.ReceiverID = Self /\ p.Round = DpRound /\ p.SigOK
                  /\ p.ProposerID \in dp.idMap
               THEN dpArrived \cup {p.ProposerID} ELSE dpArrived
        /\ dpAntiSeen' =
               IF /\ p.ReceiverID # Self /\ p.Round = DpRound /\ p.SigOK
                  /\ {p.ProposerID, p.ReceiverID} \subseteq dp.idMap
                  /\ p.Good
               THEN dpAntiSeen \cup {<<p.ReceiverID, p.ProposerID>>}
               ELSE dpAntiSeen
        /\ UNCHANGED notDpVars

DpProposeNackComplaints ==
    /\ dp.idMap # {}
    /\ dpOut' = [NoOutput EXCEPT !.nacks = proposeNackComplaints(dp)]
    /\ UNCHANGED <<dp, dpArrived, dpAntiSeen, dpComplained, dpShareMsgs>>
    /\ UNCHANGED notDpVars

DpProcessNackComplaints ==
    \E complaints \in ComplaintLists :
        /\ dp.idMap # {}
        /\ dpOut' = processNackComplaints(dp, complaints)
        /\ UNCHANGED <<dp, dpArrived, dpAntiSeen, dpComplained, dpShareMsgs>>
        /\ UNCHANGED notDpVars

DpEnforceNackComplaints ==
    \E complaints \in ComplaintLists :
        /\ dp.idMap # {}
        /\ dpOut' = [NoOutput EXCEPT
                        !.complaints = enforceNackComplaints(dp, complaints)]
        /\ UNCHANGED <<dp, dpArrived, dpAntiSeen, dpComplained, dpShareMsgs>>
        /\ UNCHANGED notDpVars

DpInit ==
    /\ dp = newDKGProtocol
    /\ dpOut = NoOutput
    /\ dpArrived = {}
    /\ dpAntiSeen = {}
    /\ dpComplained = [n \in DpNodes |-> 0]
    /\ dpShareMsgs = 0

DpNext ==
    \/ DpProcessMasterPublicKeys \/ DpProcessPrivateShare
    \/ DpProposeNackComplaints \/ DpProcessNackComplaints
    \/ DpEnforceNackComplaints

(***************************************************************************)
(* The vote cache of a Network over votes of several positions and         *)
(* headers, with votes that come again (src/unnamed/part_002:644-663).     *)
(***************************************************************************)
\* The calls of addVoteToCache in a run.
MaxCacheCalls == 5

\* The positions and the headers of the votes.
NumVotePositions == 3
NumVoteHeaders == 2

CacheVotes == [chain : 1..NumVotePositions, id : 1..NumVoteHeaders]

NoVote == [chain |-> 0, id |-> 0]

\* dispatchMsg, case *types.Vote: n.addVoteToCache(v)
AddVoteToCache ==
    \E v \in CacheVotes :
        /\ vcCalls < MaxCacheCalls
        /\ vcCalls' = vcCalls + 1
        /\ \E r \in {addVoteToCache(vcCache, vcPositions, vcSize, v)} :
            /\ vcCache' = r.cache
            /\ vcPositions' = r.positions
            /\ vcSize' = r.size
            /\ vcStamp' =
                   [p \in DOMAIN r.cache |->
                       IF /\ p \in DOMAIN vcCache
                          /\ ~(vcSize >= maxVoteCache /\ p = Head(vcPositions))
                       THEN vcStamp[p] ELSE vcCalls + 1]
        /\ vcLast' = [vote |-> v, cache |-> vcCache,
                      positions |-> vcPositions, size |-> vcSize]
        /\ UNCHANGED notVcVars

VcInit ==
    /\ vcCache = <<>>
    /\ vcPositions = <<>>
    /\ vcSize = 0
    /\ vcLast = [vote |-> NoVote, cache |-> <<>>, positions |-> <<>>,
                 size |-> 0]
    /\ vcStamp = <<>>
    /\ vcCalls = 0

VcNext == AddVoteToCache

(***************************************************************************)
(* Consensus.Run and runDKGTSIG: the DKG and TSIG task of the first round  *)
(* and the start of the agreements (src/core/consensus.go:302-327,         *)
(* 374-416).                                                               *)
(***************************************************************************)
\* The calls of runDKGTSIG in a run, that of Run included.
MaxDKGCalls == 3

\* The ticks Run hands to each chain.
MaxRdTicks == 2

\* runDKGTSIG_Always: the task is started whatever dkgRunning is.
AlreadyRunning_Never(running) == FALSE

\* runDKGTSIG: if con.dkgRunning != 0 { return }
AlreadyRunning(running) == running # 0

\* runDKGTSIG under con.dkgReady.L: dkgRunning after the call and whether
\* the goroutine of the task was started.
runDKGTSIG(running) ==
    IF AlreadyRunning(running)
    THEN [dkgRunning |-> running, started |-> 0]
    ELSE [dkgRunning |-> 1, started |-> 1]

\* The state after a call of runDKGTSIG; the call takes con.dkgReady.L.
CallRunDKGTSIG ==
    /\ rdPanic # "dead"
    /\ dkgReadyL = "free"
    /\ rdCalls < MaxDKGCalls
    /\ rdCalls' = rdCalls + 1
    /\ dkgRunning' = runDKGTSIG(dkgRunning).dkgRunning
    /\ rdTasks' = [rdTasks EXCEPT
                      !.started = @ + runDKGTSIG(dkgRunning).started,
                      !.live = @ + runDKGTSIG(dkgRunning).started]

\* Run: go con.processMsg(...); con.runDKGTSIG()
RunStart ==
    /\ rdPc = "start"
    /\ CallRunDKGTSIG
    /\ rdPc' = "check"
    /\ UNCHANGED <<notRdVars, dkgReadyL, rdPanic, rdBA, rdSenders, rdDelivered>>

\* A call of runDKGTSIG by another goroutine.
RunDKGTSIGAgain ==
    /\ CallRunDKGTSIG
    /\ UNCHANGED <<notRdVars, dkgReadyL, rdPc, rdPanic, rdBA, rdSenders,
                   rdDelivered>>

\* Run: with con.dkgReady.L, for con.dkgRunning != 2 { con.dkgReady.Wait() };
\* Wait gives the lock back, and Run keeps it once the loop is left (its
\* deferred Unlock never runs, Run does not return).
RunCheck ==
    /\ rdPanic # "dead"
    /\ rdPc = "check"
    /\ dkgReadyL = "free"
    /\ IF dkgRunning # 2
       THEN rdPc' = "wait" /\ UNCHANGED dkgReadyL
       ELSE rdPc' = "startBA" /\ dkgReadyL' = "Run"
    /\ UNCHANGED <<notRdVars, dkgRunning, rdTasks, rdPanic, rdCalls, rdBA,
                   rdSenders, rdDelivered>>

\* The goroutine of runDKGTSIG ends, by returning or by one of its panics:
\* its deferred function takes the lock, wakes the waiters and sets
\* dkgRunning to 2.
DKGTaskEnd ==
    \E panicked \in BOOLEAN :
        /\ rdPanic = "no"
        /\ rdTasks.live > 0
        /\ dkgReadyL = "free"
        /\ dkgRunning' = 2
        /\ rdTasks' = [rdTasks EXCEPT !.live = @ - 1, !.finished = @ + 1]
        /\ rdPc' = IF rdPc = "wait" THEN "check" ELSE rdPc
        /\ rdPanic' = IF panicked THEN "panicking" ELSE "no"
        /\ UNCHANGED <<notRdVars, dkgReadyL, rdCalls, rdBA, rdSenders,
                       rdDelivered>>

\* The panic of the task, after its deferred function, ends the process.
DKGTaskPanic ==
    /\ rdPanic = "panicking"
    /\ rdPanic' = "dead"
    /\ UNCHANGED <<notRdVars, dkgRunning, dkgReadyL, rdPc, rdTasks, rdCalls,
                   rdBA, rdSenders, rdDelivered>>

\* Run: go con.runBA(i, tick) for the next chain; after the last one,
\* go con.processWitnessData().
RunStartBA ==
    \E c \in Chains :
        /\ rdPanic # "dead"
        /\ rdPc = "startBA"
        /\ c = Cardinality(rdBA)
        /\ rdBA' = rdBA \cup {c}
        /\ rdPc' = IF c = NumChains - 1 THEN "reset1" ELSE "startBA"
        /\ UNCHANGED <<notRdVars, dkgRunning, dkgReadyL, rdTasks, rdPanic,
                       rdCalls, rdSenders, rdDelivered>>

\* Run: the two reads of the ticker that reset it.
RunResetTicker ==
    /\ rdPanic # "dead"
    /\ rdPc \in {"reset1", "reset2"}
    /\ rdPc' = IF rdPc = "reset1" THEN "reset2" ELSE "loop"
    /\ UNCHANGED <<notRdVars, dkgRunning, dkgReadyL, rdTasks, rdPanic, rdCalls,
                   rdBA, rdSenders, rdDelivered>>

\* Run: a tick of the ticker, and one sender goroutine for every chain.
RunTick ==
    /\ rdPanic # "dead"
    /\ rdPc = "loop"
    /\ \A c \in Chains : rdSenders[c] + rdDelivered[c] < MaxRdTicks
    /\ rdSenders' = [c \in Chains |-> rdSenders[c] + 1]
    /\ UNCHANGED <<notRdVars, dkgRunning, dkgReadyL, rdPc, rdTasks, rdPanic,
                   rdCalls, rdBA, rdDelivered>>

\* tick <- struct{}{} of a sender meets the receive of the chain's runBA.
RunTickDelivered ==
    \E c \in Chains :
        /\ rdPanic # "dead"
        /\ c \in rdBA
        /\ rdSenders[c] > 0
        /\ rdSenders' = [rdSenders EXCEPT ![c] = @ - 1]
        /\ rdDelivered' = [rdDelivered EXCEPT ![c] = @ + 1]
        /\ UNCHANGED <<notRdVars, dkgRunning, dkgReadyL, rdPc, rdTasks,
                       rdPanic, rdCalls, rdBA>>

\* NewConsensus: dkgRunning is 0, nobody holds the lock, Run was not called.
RdInit ==
    /\ dkgRunning = 0
    /\ dkgReadyL = "free"
    /\ rdPc = "start"
    /\ rdTasks = [started |-> 0, live |-> 0, finished |-> 0]
    /\ rdPanic = "no"
    /\ rdCalls = 0
    /\ rdBA = {}
    /\ rdSenders = [c \in Chains |-> 0]
    /\ rdDelivered = [c \in Chains |-> 0]

RdNext ==
    \/ RunStart
    \/ RunDKGTSIGAgain
    \/ RunCheck
    \/ DKGTaskEnd
    \/ DKGTaskPanic
    \/ RunStartBA
    \/ RunResetTicker
    \/ RunTick
    \/ RunTickDelivered

(***************************************************************************)
(* Specifications                                                          *)
(***************************************************************************)
Init ==
    /\ NodeSetCacheInit /\ DKGInit /\ ConsensusInit /\ BAInit /\ TSigInit
    /\ TasksInit /\ SubSetInit /\ HeapInit /\ NetInit /\ TcInit /\ RunInit
    /\ DispInit
    /\ AppInit
    /\ PbInit
    /\ RaInit
    /\ DpInit
    /\ VcInit
    /\ RdInit

SpecDispatch ==
    Init /\ [][DispNext]_vars

SpecApp ==
    Init /\ [][AppNext]_vars

SpecProcessBlock ==
    Init /\ [][PbNext]_vars

SpecRunBA ==
    Init /\ [][RaNext]_vars

SpecRunBAFair ==
    Init /\ [][RaNext]_vars /\ RaFairness

SpecDKGProtocol ==
    Init /\ [][DpNext]_vars

SpecVoteCache ==
    Init /\ [][VcNext]_vars

SpecRunDKG ==
    Init /\ [][RdNext]_vars

SpecNodeSetCache ==
    Init /\ [][NodeSetCacheNext]_vars

SpecDKG ==
    Init /\ [][DKGNext]_vars

SpecNodeSetCacheTasks ==
    Init /\ [][TasksNext]_vars

SpecSubSet ==
    Init /\ [][SubSetNext]_vars

SpecHeap ==
    Init /\ [][HeapNext]_vars

SpecNet ==
    Init /\ [][NetNext]_vars

SpecTSigCache ==
    Init /\ [][TcNext]_vars

SpecRun ==
    Init /\ [][RunNext]_vars /\ RunFairness

SpecTSig ==
    Init /\ [][TSigNext]_vars

SpecBA ==
    Init /\ [][BANext]_vars

SpecConsensus ==
    Init /\ [][ConsensusNext]_vars

(***************************************************************************)
(* Claims on the NodeSetCache                                              *)
(***************************************************************************)
\* The nodes that are members of at least one cached round.
CachedMembers == UNION {rounds[r].nodeSet : r \in DOMAIN rounds}

C14_RoundNotReady ==
    [][/\ lastGov'.asked /\ ~lastGov'.ready =>
            /\ lastErr' = "ErrRoundNotReady"
            /\ rounds' = rounds
            /\ keyPool' = keyPool
       /\ lastGov'.asked /\ lastGov'.ready =>
            /\ lastErr' # "ErrRoundNotReady"
            /\ lastGov'.round \in DOMAIN rounds'
       /\ lastErr' = "ErrRoundNotReady" => lastGov'.asked /\ ~lastGov'.ready
      ]_vars

\* A query failed with ErrRoundNotReady while other rounds are cached and
\* keys are pooled.
C14_Witness ==
    /\ lastErr = "ErrRoundNotReady"
    /\ lastGov.round \notin DOMAIN rounds
    /\ DOMAIN rounds # {}
    /\ DOMAIN keyPool # {}

\* The number of cached rounds whose node set contains the node.
CachedRoundsOf(n) ==
    Cardinality({r \in DOMAIN rounds : n \in rounds[r].nodeSet})

\* C15: under any interleaving of concurrent queries, every key-pool entry's
\* refCnt is the number of cached rounds whose node set contains the node, and
\* a node has an entry exactly when that number is not zero.
C15_RefCountIsCachedRounds ==
    \A n \in Nodes :
        /\ n \in DOMAIN keyPool <=> CachedRoundsOf(n) > 0
        /\ n \in DOMAIN keyPool => keyPool[n] = CachedRoundsOf(n)

\* The lists that hold the same keys as the list, in every order.
RECURSIVE Orders(_)
Orders(S) ==
    IF S = {} THEN {<<>>}
    ELSE UNION {{<<n>> \o rest : rest \in Orders(S \ {n})} : n \in S}

\* The smaller of two numbers.
Smaller(a, b) == IF a < b THEN a ELSE b

\* C16: the DKG set and each chain's notary set of a round depend only on
\* (node set, CRS, kind): every order in which governance may list the keys
\* gives the same sets, the sets the cache's GetSubSet gives; each is a subset
\* of the node set and has size min(m, |N|), all of N when m > |N|.
C16_SubSetsOrderIndependent ==
    subSets # NoSets =>
        /\ \A keys \in Orders(NodeSetOf(govKeys)) :
              SetsOf(keys, subSets.crs, subSets.numNotarySet,
                     subSets.numDKGSet) = subSets
        /\ subSets.dkgSet =
              GetSubSet(subSets.nodeSet, subSets.numDKGSet,
                        DKGSetTarget(subSets.crs))
        /\ subSets.dkgSet \subseteq subSets.nodeSet
        /\ Cardinality(subSets.dkgSet) =
              Smaller(subSets.numDKGSet, Cardinality(subSets.nodeSet))
        /\ \A i \in 0..(NumChains - 1) :
              /\ subSets.notarySet[i] =
                    GetSubSet(subSets.nodeSet, subSets.numNotarySet,
                              NotarySetTarget(subSets.crs, i))
              /\ subSets.notarySet[i] \subseteq subSets.nodeSet
              /\ Cardinality(subSets.notarySet[i]) =
                    Smaller(subSets.numNotarySet,
                            Cardinality(subSets.nodeSet))

\* Sets derived from three keys: a DKG set larger than the node set was asked
\* for, and a notary set of one node that is not the first key listed.
C16_Witness ==
    /\ subSets # NoSets
    /\ Len(govKeys) = 3
    /\ subSets.numDKGSet > 3
    /\ subSets.dkgSet = subSets.nodeSet
    /\ subSets.numNotarySet = 1
    /\ subSets.notarySet[0] # {govKeys[1]}

\* C17: the sets GetNodeSet, GetNotarySet and GetDKGSet return are copies:
\* whatever a caller adds to or deletes from a returned set, the cache's maps
\* of the round stay what update built, so that every later query returns
\* the same sets.
C17_ReturnedSetsAreCopies ==
    heapRound # NoRound =>
        /\ \A o \in Objects \ {ObjCopy} :
              heap[o] = CachedObjects(heapRound.round, heapRound.keys)[o]
        /\ callerRef # NoRef => callerRef \notin Objects \ {ObjCopy}
        /\ \A r \in {Clone(heap, ObjNodeSet)} :
              r.heap[r.ref] = NewSets(heapRound.round, heapRound.keys).nodeSet
        /\ \A r \in {cloneMap(heap, ObjDKGSet)} :
              r.heap[r.ref] = NewSets(heapRound.round, heapRound.keys).dkgSet
        /\ \A i \in 0..(NumChains - 1) :
              \A r \in {cloneMap(heap, ObjNotarySet(i))} :
                  r.heap[r.ref]
                      = NewSets(heapRound.round, heapRound.keys).notarySet[i]

\* The caller was given a notary set, deleted its node and added another.
C17_Witness ==
    /\ callerRef # NoRef
    /\ callerSrc = ObjNotarySet(0)
    /\ heap[callerSrc] # {}
    /\ heap[callerRef] # {}
    /\ heap[callerRef] \cap heap[callerSrc] = {}

(***************************************************************************)
(* Claims on the test Network                                              *)
(***************************************************************************)
\* C18: after any sequence of insertions the block cache, the randomness
\* cache, the agreement-sent set and the randomness-sent set each hold at most
\* the cap (1000 in the source) entries.
C18_CachesCapped ==
    /\ Cardinality(blockCache) <= maxBlockCache
    /\ Cardinality(randomnessCache) <= maxBlockCache
    /\ Cardinality(sentAgreement) <= maxBlockCache
    /\ Cardinality(sentRandomness) <= maxBlockCache

\* What the caches do hold at most: one entry more than the cap.
C18_CapPlusOne ==
    /\ Cardinality(blockCache) <= maxBlockCache + 1
    /\ Cardinality(randomnessCache) <= maxBlockCache + 1
    /\ Cardinality(sentAgreement) <= maxBlockCache + 1
    /\ Cardinality(sentRandomness) <= maxBlockCache + 1

(***************************************************************************)
(* Claims on the DKG group public key and the threshold                    *)
(***************************************************************************)
\* A complaint that carries a share is valid when the share fails the
\* verification against the accused's master public key.
ValidComplaint(c) ==
    /\ ~IsNack(c)
    /\ ~VerifyPrvShare(c.ShareProposerID, DkgID(c.ProposerID), c.Share)

\* The nack complaints against nID that no anti-nack resolved.
UnresolvedNacks(complaints, resolved, nID) ==
    BagSum(complaints,
           {c \in DOMAIN complaints :
               /\ IsNack(c)
               /\ c.ShareProposerID = nID
               /\ <<c.ProposerID, nID>> \notin resolved})

\* The qualified set as the specification defines it.
SpecQualified(mpks, complaints, resolved, t) ==
    {j \in mpks :
        /\ ~\E c \in DOMAIN complaints :
               c.ShareProposerID = j /\ ValidComplaint(c)
        /\ ~(UnresolvedNacks(complaints, resolved, j) > t)}

\* C9: the qualified set of the group public key built for a round is exactly
\* the master-public-key proposers minus those with a valid non-nack
\* complaint against them or with more than t unresolved nack complaints.
C9_QualifiedAsSpecified ==
    \A r \in DOMAIN verifier :
        verifier[r].qualifyNodeIDs =
            SpecQualified(govMpks, govComplaints, antiNacks,
                          verifier[r].threshold)

\* C10: the threshold the orchestrator registers for the initial round and
\* the threshold of the group public key built by TSigVerifierCache.Update
\* for that round are both floor(DKGSetSize/3) + 1.
C10_SameThreshold ==
    /\ dkgThreshold = (DKGSetSize \div 3) + 1
    /\ \A r \in DOMAIN verifier :
           /\ verifier[r].threshold = (DKGSetSize \div 3) + 1
           /\ verifier[r].threshold = dkgThreshold

(***************************************************************************)
(* Claims on the block pipeline of Consensus                               *)
(***************************************************************************)
IsDelivered(e) == e.ev = "BlockDelivered"

\* The BlockDelivered callbacks, in the order they were issued.
DeliveredEvents == SelectSeq(appLog, IsDelivered)

\* C5: the consensus timestamps of the blocks handed to BlockDelivered never
\* decrease in delivery order.
C5_TimestampsMonotonic ==
    \A i, j \in DOMAIN DeliveredEvents :
        i < j => DeliveredEvents[i].ts <= DeliveredEvents[j].ts

\* Two blocks were delivered and the median of the chain tips lies before
\* the timestamp of the block delivered before the last one.
C5_Witness ==
    /\ Len(DeliveredEvents) >= 2
    /\ Median(ctTips) < DeliveredEvents[Len(DeliveredEvents) - 1].ts

\* The hashes of the TotalOrderingDelivered batches, one after the other.
RECURSIVE BatchHashes(_)
BatchHashes(log) ==
    IF log = <<>> THEN <<>>
    ELSE IF Head(log).ev = "TotalOrderingDelivered"
    THEN Head(log).hashes \o BatchHashes(Tail(log))
    ELSE BatchHashes(Tail(log))

IssuedBefore(i, ev, hash) ==
    \E j \in 1..(i - 1) :
        /\ appLog[j].ev = ev
        /\ \E n \in DOMAIN appLog[j].hashes : appLog[j].hashes[n] = hash

\* C6: every block reported with BlockDelivered was reported with
\* StronglyAcked and in a TotalOrderingDelivered batch before, and the
\* BlockDelivered calls follow the batches, one after the other, after every
\* call of processBlock.
C6_DeliveredFollowsTotalOrder ==
    /\ \A i \in DOMAIN appLog :
           IsDelivered(appLog[i]) =>
               /\ IssuedBefore(i, "StronglyAcked", appLog[i].hashes[1])
               /\ IssuedBefore(i, "TotalOrderingDelivered",
                               appLog[i].hashes[1])
    /\ [i \in DOMAIN DeliveredEvents |-> DeliveredEvents[i].hashes[1]]
           = BatchHashes(appLog)

SanityErrors ==
    {"ErrIncorrectBlockPosition", "ErrIncorrectBlockTime",
     "ErrIncorrectHash", "ErrIncorrectSignature"}

\* The block fails one of the checks: its position, its timestamp against
\* the tip of its chain (a genesis block has no interval to meet), its hash
\* or its signer.
FailsSanityCheck(b) ==
    \/ b.ShardID # 0
    \/ b.ChainID >= NumChains
    \/ /\ b.ChainID < NumChains
       /\ b.Height # 0
       /\ \/ b.Timestamp < rbTip[b.ChainID].Timestamp + MinBlockInterval
          \/ b.Timestamp > rbTip[b.ChainID].Timestamp + MaxBlockInterval
    \/ b.Hash # hashBlock(b)
    \/ b.Signer # b.ProposerID

\* C7: whatever the state, preProcessBlock and processBlock reject a block
\* that fails a sanity check with one of the sanity errors, and leave the
\* candidates of the agreement, the reliable broadcast, the total ordering,
\* the database and the callbacks as they were.
C7_FailingBlockRejected ==
    \A b \in Blocks :
        FailsSanityCheck(b) =>
            /\ \A pre \in {preProcessBlock(candidates, b)} :
                   /\ pre.err \in SanityErrors
                   /\ pre.candidates = candidates
            /\ \A k \in {0, MaxCandidates}, budget \in {NoFault, 0} :
                   \A r \in {processBlock(b, k, budget)} :
                       /\ r.err \in SanityErrors
                       /\ [r EXCEPT !.err = Nil] = Pipeline(budget)

\* processBlock has just rejected a candidate for its timestamp: the chain
\* has a tip, blocks were confirmed before, and the candidate is still there.
C7_Witness ==
    /\ conErr = "ErrIncorrectBlockTime"
    /\ appLog # <<>>
    /\ \E c \in Chains :
           /\ rbTip[c].Height >= 0
           /\ \E b \in candidates[c] : FailsSanityCheck(b)

\* A step of ConfirmBlock(hash) of chain c sends false once: it is put on the
\* channel, or the send waits for room on it.
SendsFalseOnce(c) ==
    \/ /\ restartNotary' = [restartNotary EXCEPT ![c] = Append(@, FALSE)]
       /\ UNCHANGED sendPending
    \/ /\ ~sendPending[c]
       /\ sendPending' = [sendPending EXCEPT ![c] = TRUE]
       /\ UNCHANGED restartNotary

\* The block of the hash was handed to the reliable broadcast.
DeliveredToRB(hash) ==
    /\ Len(appLog') > Len(appLog)
    /\ appLog'[Len(appLog) + 1] = Event("BlockConfirmed", <<hash>>, NoTime)

\* C8 as stated: ConfirmBlock(h) delivers nothing and sends nothing when h is
\* no candidate; when it is one, the block is delivered to the reliable
\* broadcast and false is sent once.
C8_SendsWheneverFound ==
    [][\A c \in Chains :
         \A hash \in {b.Hash : b \in candidates[c]} \cup {0} :
           \A in \in ConfirmInputs(c, hash) :
             ConfirmBlockOf(c, hash, in[1], in[2]) =>
                 IF findCandidateBlock(c, hash) = {}
                 THEN UNCHANGED <<pipelineVars, restartNotary, sendPending>>
                 ELSE DeliveredToRB(hash) /\ SendsFalseOnce(c)]_vars

\* C8, amended: ConfirmBlock(h) delivers nothing and sends nothing when h is
\* no candidate; when it is one, false is sent once if processBlock returned
\* no error, and then the block was delivered to the reliable broadcast; if
\* processBlock returned an error nothing is sent.  A send that waited goes
\* through once.
C8_SendsIffProcessed ==
    [][/\ \A c \in Chains :
            \A hash \in {b.Hash : b \in candidates[c]} \cup {0} :
              \A in \in ConfirmInputs(c, hash) :
                ConfirmBlockOf(c, hash, in[1], in[2]) =>
                    IF findCandidateBlock(c, hash) = {}
                    THEN UNCHANGED <<pipelineVars, restartNotary,
                                     sendPending>>
                    ELSE IF conErr' = Nil
                    THEN DeliveredToRB(hash) /\ SendsFalseOnce(c)
                    ELSE UNCHANGED <<restartNotary, sendPending>>
       /\ ConfirmBlockSend =>
              \E c \in Chains :
                  /\ sendPending[c]
                  /\ restartNotary' =
                         [restartNotary EXCEPT ![c] = Append(@, FALSE)]
                  /\ sendPending' = [sendPending EXCEPT ![c] = FALSE]]_vars

\* ConfirmBlock found its candidate, the reliable broadcast rejected it, and
\* no channel holds a value or has a send waiting.
C8_Witness ==
    /\ conErr = "ErrInvalidBlock"
    /\ \A c \in Chains : restartNotary[c] = <<>> /\ ~sendPending[c]

(***************************************************************************)
(* Claims on the TSigVerifierCache                                         *)
(***************************************************************************)
\* The lowest of a set of rounds.
Lowest(S) == CHOOSE x \in S : \A y \in S : x <= y

\* C19: after any sequence of Update calls that returned, the cache holds at
\* most cacheSize rounds, every cached round is >= minRound, minRound is a
\* cached round whenever the cache is not empty, Get finds exactly the cached
\* rounds, and an insertion that overflowed the cache evicted the lowest
\* cached round and kept the round it inserted.
C19_BoundedFromMinRound ==
    tcCacheSize >= 0 /\ ~tcHung =>
        /\ Cardinality(DOMAIN tcVerifier) <= tcCacheSize
        /\ \A r \in DOMAIN tcVerifier : r >= tcMinRound
        /\ DOMAIN tcVerifier # {} => tcMinRound \in DOMAIN tcVerifier
        /\ \A r \in TcRounds : VerifierCacheGet(r) <=> r \in DOMAIN tcVerifier
        /\ tcLast.inserted =>
              /\ tcLast.ok /\ tcLast.err = Nil
              /\ tcLast.round \in DOMAIN tcVerifier
              /\ DOMAIN tcVerifier =
                    IF Cardinality(tcLast.before) + 1 > tcCacheSize
                    THEN (tcLast.before \cup {tcLast.round})
                             \ {Lowest(tcLast.before)}
                    ELSE tcLast.before \cup {tcLast.round}
        /\ ~tcLast.inserted => DOMAIN tcVerifier = tcLast.before

\* A full cache of two rounds took a round between them: the lowest round was
\* evicted, the inserted one is the new minRound.
C19_Witness ==
    /\ tcCacheSize = 2
    /\ ~tcHung
    /\ tcLast.inserted
    /\ Cardinality(tcLast.before) = 2
    /\ tcLast.round = tcMinRound
    /\ \E r \in tcLast.before : r > tcLast.round

(***************************************************************************)
(* Claims on Run and Stop                                                  *)
(***************************************************************************)
\* C20: after Stop every task Run started exits in the end: the message
\* dispatch, the BA task of every chain, the witness-data task, and the
\* ticker fan-out with the sender goroutines it started.
C20_AllTasksExit ==
    ctxDone ~>
        /\ msgPc = "exited"
        /\ witnessPc = "exited"
        /\ \A c \in Chains : runBAPc[c] = "exited"
        /\ \A c \in Chains : tickSenders[c] = 0

\* What does hold: the tasks that look at con.ctx exit after Stop.
C20_SelectingTasksExit ==
    ctxDone ~>
        /\ msgPc = "exited"
        /\ witnessPc = "exited"
        /\ \A c \in Chains : runBAPc[c] = "exited"

C11_SignatureIffThreshold ==
    tsigOut # NoOut =>
        /\ tsigOut.err = "ErrNotEnoughtPartialSignatures"
               <=> Cardinality(tsigSenders) < tsigGpk.threshold
        /\ tsigOut.err \in {Nil, "ErrNotEnoughtPartialSignatures"}
        /\ tsigOut.err = Nil => tsigOut.sig = RecoverSignature(tsigSigs)

\* signature() succeeded on exactly threshold partial signatures, after a
\* partial signature was rejected.
C11_Witness ==
    /\ tsigOut # NoOut
    /\ tsigOut.err = Nil
    /\ Cardinality(DOMAIN tsigSigs) = tsigGpk.threshold
    /\ Cardinality(tsigGpk.qualifyNodeIDs) > tsigGpk.threshold
    /\ tsigErr = "ErrIncorrectPartialSignature"

\* signature() failed with one partial signature short of the threshold.
C11_WitnessShort ==
    /\ tsigOut # NoOut
    /\ tsigOut.err = "ErrNotEnoughtPartialSignatures"
    /\ Cardinality(DOMAIN tsigSigs) = tsigGpk.threshold - 1

\* A partial signature the protocol has to reject or ignore: of another
\* round, from an unqualified proposer, with a bad authenticator signature,
\* over another hash, or not verifying under its proposer's public key.
Unacceptable(psig) ==
    \/ psig.Round # tsigGpk.round
    \/ psig.ProposerID \notin tsigGpk.qualifyNodeIDs
    \/ ~psig.AuthOK
    \/ psig.Hash # tsigHash
    \/ ~VerifySignature(RecoverPublicKey(tsigGpk.qualifyNodeIDs,
                                         psig.ProposerID),
                        tsigHash, psig.PartialSignature)

\* C12: the partial signatures a tsigProtocol counts hold one entry per DKG
\* ID and proposer, each of a qualified participant and verifying over the
\* protocol's hash under that participant's public key; a partial signature
\* that is rejected or ignored leaves the set unchanged, and an accepted one
\* only sets the entry of its proposer's DKG ID.
C12_CountedSignaturesVerified ==
    tsigGpk # NoGpk =>
        /\ DOMAIN tsigSigs = {DkgID(n) : n \in tsigSenders}
        /\ Cardinality(DOMAIN tsigSigs) = Cardinality(tsigSenders)
        /\ tsigSenders \subseteq tsigGpk.qualifyNodeIDs
        /\ \A n \in tsigSenders :
              VerifySignature(
                  RecoverPublicKey(tsigGpk.qualifyNodeIDs, n), tsigHash,
                  tsigSigs[DkgID(n)])
        /\ \A psig \in PartialSignatures :
              \A r \in {processPartialSignature(tsigGpk, tsigHash, tsigSigs,
                                                psig)} :
                  /\ Unacceptable(psig) => r.sigs = tsigSigs
                  /\ r.err # Nil <=>
                        Unacceptable(psig) /\ psig.Round = tsigGpk.round
                  /\ DOMAIN r.sigs \subseteq
                        DOMAIN tsigSigs \cup {DkgID(psig.ProposerID)}

\* One participant's partial signature is stored, a resent one over another
\* hash was rejected, and signature() is short of the threshold.
C12_Witness ==
    /\ tsigGpk # NoGpk
    /\ Cardinality(tsigSenders) = 1
    /\ tsigGpk.threshold > 1
    /\ tsigErr = "ErrMismatchPartialSignatureHash"
    /\ tsigOut.err = "ErrNotEnoughtPartialSignatures"

\* The partial signature an honest qualified participant publishes: signed
\* with the share secret it recovered from the qualified proposers' shares.
HonestPartialSignature(n) ==
    [ProposerID |-> n, Round |-> tsigGpk.round, Hash |-> tsigHash,
     PartialSignature |->
         Sign(RecoverPrivateKey(tsigGpk.qualifyNodeIDs, n), tsigHash),
     AuthOK |-> TRUE]

\* tsig.sigs holding the honest partial signatures of the participants S.
HonestSigs(S) ==
    [id \in {DkgID(n) : n \in S} |->
        Sign(RecoverPrivateKey(tsigGpk.qualifyNodeIDs,
                               CHOOSE n \in S : DkgID(n) = id), tsigHash)]

C21_ArrivalOrder ==
    \A c \in Chains :
        \A i, j \in DOMAIN baProcessed[c] :
            i < j => baProcessed[c][i] < baProcessed[c][j]

\* What does hold: processMsg gives the votes to the agreements in the order
\* of n.toConsensus, and each vote once.
C21_ChannelOrder ==
    [][\A c \in Chains :
          \/ baProcessed'[c] = baProcessed[c]
          \/ /\ toConsensus # <<>>
             /\ Head(toConsensus).chain = c
             /\ baProcessed'[c] = Append(baProcessed[c], Head(toConsensus).id)
             /\ toConsensus' = Tail(toConsensus)]_vars

(***************************************************************************)
(* The test App (SpecApp)                                                  *)
(***************************************************************************)
\* The positions both deliver sequences have.
Common == 1..Min(Len(app.DeliverSequence), Len(appOther.DeliverSequence))

\* C22: Compare returns ErrEmptyDeliverSequence when either App has
\* delivered nothing, ErrMismatchBlockHashSequence when the delivered hashes
\* differ at some position, ErrMismatchConsensusTime when the hashes agree
\* and the consensus time of some block differs; the empty and the
\* time-mismatch results do not depend on which App is the receiver.
C22_Compare ==
    LET da == app.DeliverSequence
        do == appOther.DeliverSequence
        hashesDiffer == \E i \in Common : da[i].hash # do[i].hash
        timesDiffer  == \E i \in Common : da[i].time # do[i].time
    IN  \A r \in {Compare(app, appOther)}, back \in {Compare(appOther, app)} :
            /\ (da = <<>> \/ do = <<>>) <=> r = "ErrEmptyDeliverSequence"
            /\ r = "ErrEmptyDeliverSequence" <=>
                   back = "ErrEmptyDeliverSequence"
            /\ Common # {} /\ hashesDiffer <=>
                   r = "ErrMismatchBlockHashSequence"
            /\ Common # {} /\ ~hashesDiffer /\ timesDiffer <=>
                   r = "ErrMismatchConsensusTime"
            /\ r = "ErrMismatchConsensusTime" <=>
                   back = "ErrMismatchConsensusTime"

\* Both Apps were delivered the same two blocks, the second at different
\* times.
C22_Witness ==
    /\ Len(app.DeliverSequence) = 2
    /\ Len(appOther.DeliverSequence) = 2
    /\ \A i \in 1..2 : app.DeliverSequence[i].hash = appOther.DeliverSequence[i].hash
    /\ app.DeliverSequence[1].time = appOther.DeliverSequence[1].time
    /\ app.DeliverSequence[2].time # appOther.DeliverSequence[2].time
    /\ Compare(app, appOther) = "ErrMismatchConsensusTime"

\* The delivered hashes of the App.
DeliveredHashes == [i \in DOMAIN app.DeliverSequence |-> app.DeliverSequence[i].hash]

\* C23: Verify returns nil for an App populated in protocol order, and
\* otherwise the condition that is violated: ErrDeliveredBlockNotAcked for a
\* delivered block never strongly acked (looked at before the times),
\* ErrConsensusTimestampOutOfOrder for a delivery time before its
\* predecessor's, ErrMismatchTotalOrderingAndDelivered when the delivered
\* sequence is not the concatenation of the total-ordering batches.
C23_Verify ==
    LET d == app.DeliverSequence
        notAcked   == \E i \in DOMAIN d : d[i].hash \notin app.Acked
        outOfOrder == \E i \in DOMAIN d : i > 1 /\ d[i].time < d[i - 1].time
        mismatch   == DeliveredHashes # Concat(app.TotalOrdered)
    IN  \A r \in {Verify(app)} :
            /\ notAcked <=> r = "ErrDeliveredBlockNotAcked"
            /\ ~notAcked /\ outOfOrder <=>
                   r = "ErrConsensusTimestampOutOfOrder"
            /\ ~notAcked /\ ~outOfOrder /\ mismatch <=>
                   r = "ErrMismatchTotalOrderingAndDelivered"
            /\ ~notAcked /\ ~outOfOrder /\ ~mismatch <=> r = Nil

\* An App that two calls of setupAppByTotalOrderDeliver populated verifies.
C23_Witness ==
    /\ Len(app.DeliverSequence) = 2
    /\ Len(app.TotalOrdered) = 2
    /\ app.DeliverSequence[2].time = 1
    /\ Verify(app) = Nil

\* A block that was not acked is delivered at a time before its
\* predecessor's: the missing ack is what Verify reports.
C23_WitnessNotAcked ==
    /\ Len(app.DeliverSequence) = 2
    /\ app.DeliverSequence[2].time < app.DeliverSequence[1].time
    /\ app.DeliverSequence[2].hash \notin app.Acked
    /\ Verify(app) = "ErrDeliveredBlockNotAcked"

(***************************************************************************)
(* Concurrent calls of Consensus.processBlock (SpecProcessBlock)           *)
(***************************************************************************)
\* C24: a non-genesis block that the sanity check accepted and the reliable
\* broadcast admitted has a timestamp in [predecessor's timestamp +
\* MinBlockInterval, chain time + MaxBlockInterval], and the chain time the
\* check read is the one in force when the block is admitted.
C24_CheckedAgainstAdmissionTime ==
    \A a \in pbAdmit :
        ~IsGenesis(a.block) =>
            /\ a.seen = a.inForce
            /\ a.block.Timestamp >= a.inForce + MinBlockInterval
            /\ a.block.Timestamp <= a.inForce + MaxBlockInterval

\* What does hold: a non-genesis block passes the sanity check only with a
\* timestamp in the interval around the chain time the check read, and a
\* genesis block passes with any timestamp.
C24_CheckedAgainstSeenTime ==
    \A c \in Chains :
        pbPc[c] # "idle" /\ ~IsGenesis(pbBlock[c]) =>
            /\ pbBlock[c].Timestamp >= pbSeen[c] + MinBlockInterval
            /\ pbBlock[c].Timestamp <= pbSeen[c] + MaxBlockInterval

\* The case with no empty chain in it: a block of height 2 passed the sanity
\* check against the genesis block of its chain, waited in the reliable
\* broadcast for its predecessor, and was admitted on top of a predecessor
\* whose timestamp is not MinBlockInterval before its own.
C24_LateAdmission ==
    \E a \in pbAdmit :
        /\ a.block.Height = 2
        /\ a.seen # a.inForce
        /\ a.block.Timestamp < a.inForce + MinBlockInterval
        /\ \E g \in pbAdmit :
               /\ IsGenesis(g.block)
               /\ g.block.ChainID = a.block.ChainID
               /\ g.block.Timestamp = a.seen

\* The hashes of the StronglyAcked callbacks: the blocks handed to the total
\* ordering, in the order of the calls of toModule.processBlock.
IsStronglyAcked(e) == e.ev = "StronglyAcked"

FedToTotalOrdering ==
    LET acked == SelectSeq(pbSt.log, IsStronglyAcked)
    IN  [i \in DOMAIN acked |-> acked[i].hashes[1]]

\* The calls past con.lock.Lock() and before the deferred Unlock.
InLockedPart == {c \in Chains : pbPc[c] \in {"rb", "loop"}}

\* C26: the locked parts of two processBlock calls (reliable broadcast and
\* extractBlocks, total ordering, timestamps, compaction) never interleave,
\* prepareBlock does not read while a call is in its locked part, and the
\* total ordering is fed the extracted blocks in the order of extraction.
C26_LockedPartsDoNotInterleave ==
    /\ Cardinality(InLockedPart) <= 1
    /\ \A c \in InLockedPart : conLock = c /\ ~rLocked
    /\ (InLockedPart = {}) => conLock = NoLock
    /\ Len(FedToTotalOrdering) <= Len(pbExtracted)
    /\ FedToTotalOrdering =
           SubSeq(pbExtracted, 1, Len(FedToTotalOrdering))
    /\ \A c \in Chains :
           pbPc[c] = "loop" =>
               [i \in DOMAIN pbTodo[c] |-> pbTodo[c][i].Hash] =
                   SubSeq(pbExtracted, Len(FedToTotalOrdering) + 1,
                          Len(pbExtracted))

\* The call of chain 0 is in its loop with two extracted blocks, one of them
\* fed to the total ordering, while the call of chain 1 has passed its
\* sanity check and waits for the lock.
C26_Witness ==
    /\ pbPc[0] = "loop"
    /\ pbPc[1] = "lock"
    /\ Len(pbTodo[0]) = 1
    /\ Len(FedToTotalOrdering) >= 1
    /\ Len(pbExtracted) = Len(FedToTotalOrdering) + 1

(***************************************************************************)
(* runBA and the restarts of the agreement (SpecRunBA)                     *)
(***************************************************************************)
\* C25: when runBA receives from restartNotary it restarts the agreement of
\* the chain at the height rbModule.nextHeight(chain) before the next state
\* step; on true with the notary subset of the current round's node set,
\* configuration and CRS, on false with the subset it held before.
C25_RestartOnSignal ==
    [][\A c \in Chains :
          /\ Len(raChan'[c]) < Len(raChan[c]) =>
                /\ raPc[c] = "select" /\ raPc'[c] = "state"
                /\ raAgreement'[c].height = raNextHeight[c]
                /\ raAgreement'[c].steps = 0
                /\ raAgreement'[c].notarySet = raNIDs'[c]
                /\ IF Head(raChan[c])
                   THEN raNIDs'[c] =
                            GetSubSet(Nodes, raLast'[c].size,
                                      NotarySetTarget(CRS(ConRound), c))
                   ELSE raNIDs'[c] = raNIDs[c]
          /\ raAgreement'[c].steps > raAgreement[c].steps =>
                /\ raPc[c] = "state"
                /\ raLast[c].received => raAgreement[c].steps = 0
          /\ (Len(raChan'[c]) >= Len(raChan[c])
                /\ raAgreement'[c].steps >= raAgreement[c].steps) =>
                /\ raAgreement'[c].height = raAgreement[c].height
                /\ raAgreement'[c].notarySet = raAgreement[c].notarySet]_vars

\* runBA has restarted the agreement of chain 0 at height 1 on a false
\* signal with the subset of its first restart, and is about to take a state
\* step.
C25_Witness ==
    /\ raPc[0] = "state"
    /\ raLast[0].received /\ ~raLast[0].newNotary
    /\ raAgreement[0].height = 1
    /\ raAgreement[0].steps = 0
    /\ raAgreement[0].notarySet = raNIDs[0]
    /\ Cardinality(raNIDs[0]) = NumNotarySet + 1


(***************************************************************************)
(* Claims on the dkgProtocol of a participant.                             *)
(***************************************************************************)
\* The shares processPrivateShare verifies: of this round, between two
\* participants, with the proposer's signature.
Verifiable(p) ==
    /\ p.Round = DpRound
    /\ {p.ProposerID, p.ReceiverID} \subseteq dp.idMap
    /\ p.SigOK

\* C27: a private share from j that fails verification makes the participant
\* propose a complaint carrying that share, at most one such complaint is
\* proposed against each proposer, a share that verifies triggers no
\* complaint, and the shares added to the received private shares are the
\* verified ones addressed to this node.
C27_ComplaintOnInvalidShare ==
    /\ \A n \in DpNodes : dpComplained[n] <= 1
    /\ \A p \in DpShares :
        Verifiable(p) =>
            LET r == processPrivateShare(dp, p)
            IN  /\ (~p.Good /\ dpComplained[p.ProposerID] = 0) =>
                       r.out.complaints = <<Complaint(p)>>
                /\ p.Good => r.out.complaints = <<>>
                /\ r.d.prvShares =
                       dp.prvShares \cup
                           (IF p.Good /\ p.ReceiverID = Self
                            THEN {p.ProposerID} ELSE {})

\* A complaint with the bad share was proposed against a proposer whose
\* valid share had been added before.
C27_Witness ==
    /\ Len(dpOut.complaints) = 1
    /\ dpOut.complaints[1].Share # 0
    /\ dpOut.complaints[1].Share =
           BadShare(dpOut.complaints[1].ShareProposerID,
                    DkgID(dpOut.complaints[1].ReceiverID))
    /\ dpComplained[dpOut.complaints[1].ShareProposerID] = 1
    /\ dpOut.complaints[1].ShareProposerID \in dp.prvShares


\* C28: proposeNackComplaints proposes a nack complaint against exactly the
\* master public key proposers from whom no private share addressed to this
\* node has arrived, and against none whose share arrived.
C28_NackForMissingShares ==
    dp.idMap # {} =>
        proposeNackComplaints(dp) =
            {NackComplaint(Self, j) : j \in dp.idMap \ dpArrived}

\* Nack complaints were proposed while the share of one proposer had arrived
\* and verified and that of another had arrived and failed.
C28_Witness ==
    /\ dpOut.nacks # {}
    /\ dpOut.nacks = {NackComplaint(Self, j) : j \in dp.idMap \ dpArrived}
    /\ dp.prvShares # {}
    /\ dpArrived \ dp.prvShares # {}


\* The nack complaints of a list that name this node as the share proposer
\* and come from a participant, in the order of the list.
RECURSIVE Answerable(_)
Answerable(complaints) ==
    IF complaints = <<>> THEN <<>>
    ELSE LET c == Head(complaints)
         IN  IF /\ c.Share = 0 /\ c.ShareProposerID = Self
                /\ c.ProposerID \in dp.idMap
             THEN <<c>> \o Answerable(Tail(complaints))
             ELSE Answerable(Tail(complaints))

\* C29: processNackComplaints reveals, for every nack complaint that names
\* this node as the share proposer and comes from a participant, the private
\* share this node computed for the complainer; the other complaints trigger
\* nothing, and a complaint that ends in an error does not keep the later
\* ones from being answered.
C29_AntiNackForEachNack ==
    \A complaints \in ComplaintLists :
        dp.idMap # {} =>
            LET out == processNackComplaints(dp, complaints)
                ans == Answerable(complaints)
            IN  /\ Len(out.antiNacks) = Len(ans)
                /\ \A i \in 1..Len(ans) :
                    /\ out.antiNacks[i].ProposerID = Self
                    /\ out.antiNacks[i].ReceiverID = ans[i].ProposerID
                    /\ out.antiNacks[i].Round = DpRound
                    /\ ShareOf(out.antiNacks[i]) =
                           Share(Self, DkgID(ans[i].ProposerID))
                /\ out.complaints = <<>>
                /\ out.nacks = {}

\* processNackComplaints returned the error of a complainer outside the
\* participants and still revealed a share to a later complainer.
C29_Witness ==
    /\ dpOut.err = "ErrNotDKGParticipant"
    /\ Len(dpOut.antiNacks) = 1
    /\ dpOut.antiNacks[1].ReceiverID = "d2"
    /\ ShareOf(dpOut.antiNacks[1]) = Share(Self, DkgID("d2"))


\* The valid anti-nacks a participant observes: verified shares from an
\* accused j to another node k, seen for the first time.
NewAntiNack(p) ==
    /\ Verifiable(p) /\ p.Good
    /\ p.ReceiverID # Self
    /\ p.ProposerID \notin {Self, p.ReceiverID}
    /\ <<p.ReceiverID, p.ProposerID>> \notin dpAntiSeen

\* The nack complaints this node has to enforce: by another node k against
\* another node j, with no anti-nack of j for k processed.
RECURSIVE Enforced(_)
Enforced(complaints) ==
    IF complaints = <<>> THEN <<>>
    ELSE LET c == Head(complaints)
         IN  IF /\ c.Share = 0
                /\ c.ShareProposerID # Self /\ c.ProposerID # Self
                /\ <<c.ProposerID, c.ShareProposerID>> \notin dpAntiSeen
             THEN <<NackComplaint(Self, c.ShareProposerID)>>
                      \o Enforced(Tail(complaints))
             ELSE Enforced(Tail(complaints))

\* An anti-nack is recorded for its pair, and enforceNackComplaints proposes
\* this node's nack against j for exactly the nack complaints of another
\* node k against another node j with no anti-nack recorded for <<k, j>>.
C30_RecordedAndEnforced ==
    /\ \A p \in DpShares :
        NewAntiNack(p) =>
            LET r == processPrivateShare(dp, p)
            IN  /\ p.ReceiverID \in DOMAIN r.d.antiComplaintReceived
                /\ p.ProposerID \in r.d.antiComplaintReceived[p.ReceiverID]
    /\ \A complaints \in ComplaintLists :
        enforceNackComplaints(dp, complaints) = Enforced(complaints)

\* C30: every valid anti-nack a participant observes (a verified share from
\* an accused j addressed to another node k) is rebroadcast and recorded for
\* <<k, j>>, after which enforceNackComplaints proposes no nack against j on
\* account of k's complaint; for a nack complaint of k against j without a
\* recorded anti-nack it proposes this node's nack against j, never against
\* this node and never for this node's own complaints.
C30_RebroadcastAndEnforce ==
    /\ C30_RecordedAndEnforced
    /\ \A p \in DpShares :
        NewAntiNack(p) => processPrivateShare(dp, p).out.antiNacks = <<p>>

\* Two anti-nacks for the complainer d2 were processed, that of d3 and that
\* of d4, and the last call proposed no rebroadcast.
C30_SecondAntiNack ==
    /\ {<<"d2", "d3">>, <<"d2", "d4">>} \subseteq dpAntiSeen
    /\ dpShareMsgs = 2
    /\ dpOut = NoOutput


(***************************************************************************)
(* Claims on the failures of the DKG.                                      *)
(***************************************************************************)
\* recoverShareSecret gives no share secret for fewer than t qualified
\* nodes, whatever private shares the participant holds.
C31_NoShareSecretBelowThreshold ==
    \A Q \in SUBSET DpNodes :
        Cardinality(Q) < UpdateThreshold(DKGSetSize) =>
            LET r == recoverShareSecret(dp, Q, UpdateThreshold(DKGSetSize))
            IN  r.err = "ErrNotReachThreshold" /\ r.secret = {}

\* C31: with fewer than t qualified nodes the DKG of a round fails with
\* ErrNotReachThreshold: recoverShareSecret gives no share secret and
\* NewDKGGroupPublicKey gives no group public key.
C31_FailsBelowThreshold ==
    /\ C31_NoShareSecretBelowThreshold
    /\ \A r \in DOMAIN verifier :
        Cardinality(verifier[r].qualifyNodeIDs) >= verifier[r].threshold

\* The cache holds a group public key of a single qualified node made with
\* threshold 2.
C31_KeyBelowThreshold ==
    \E r \in DOMAIN verifier :
        /\ Cardinality(verifier[r].qualifyNodeIDs) = 1
        /\ verifier[r].threshold = 2


(***************************************************************************)
(* Claims on the vote cache.                                               *)
(***************************************************************************)
\* The votes in a cache.
RECURSIVE CachedVotes(_, _)
CachedVotes(cache, S) ==
    IF S = {} THEN 0
    ELSE LET p == CHOOSE q \in S : TRUE
         IN  Cardinality(cache[p]) + CachedVotes(cache, S \ {p})

\* C32: after any sequence of addVoteToCache calls the cache holds at most
\* maxVoteCache votes, voteCacheSize is the number of cached votes,
\* votePositions lists exactly the cached positions in the order in which
\* they got their entry, a vote already cached is not counted again, and on
\* overflow all the votes of the oldest position leave together.
C32_VoteCache ==
    /\ CachedVotes(vcCache, DOMAIN vcCache) <= maxVoteCache
    /\ vcSize = CachedVotes(vcCache, DOMAIN vcCache)
    /\ {vcPositions[i] : i \in 1..Len(vcPositions)} = DOMAIN vcCache
    /\ \A i, j \in 1..Len(vcPositions) :
        i < j => vcStamp[vcPositions[i]] < vcStamp[vcPositions[j]]
    /\ \A p \in DOMAIN vcCache : vcCache[p] # {}
    /\ vcLast.vote # NoVote =>
        LET v == vcLast.vote
            full == vcLast.size >= maxVoteCache
            old == IF full THEN {Head(vcLast.positions)} ELSE {}
        IN  /\ v.id \in vcCache[v.chain]
            /\ \A p \in DOMAIN vcLast.cache \ old :
                /\ p \in DOMAIN vcCache
                /\ vcCache[p] = IF p = v.chain THEN vcLast.cache[p] \cup {v.id}
                                ELSE vcLast.cache[p]
            /\ \A p \in old :
                IF p = v.chain THEN vcCache[p] = {v.id}
                ELSE p \notin DOMAIN vcCache
            /\ (~full /\ v.chain \in DOMAIN vcLast.cache
                  /\ v.id \in vcLast.cache[v.chain]) =>
                    /\ vcSize = vcLast.size
                    /\ vcCache = vcLast.cache

\* A full cache took a vote: the two votes of the oldest position left
\* together, and the call before had brought a vote already cached.
C32_Witness ==
    /\ vcLast.size >= maxVoteCache
    /\ Len(vcLast.positions) >= 1
    /\ Cardinality(vcLast.cache[Head(vcLast.positions)]) = 2
    /\ Head(vcLast.positions) \notin DOMAIN vcCache
    /\ vcSize = 1
    /\ vcCalls > 3


(***************************************************************************)
(* Claims on the errors of TSigVerifierCache.Update.                       *)
(***************************************************************************)
\* An Update that returns ErrRoundAlreadyPurged, or false with no error,
\* leaves the cached rounds and minRound as they were.
C33_RejectedLeavesCache ==
    [][(\/ tcLast'.err = "ErrRoundAlreadyPurged"
        \/ (~tcLast'.ok /\ tcLast'.err = Nil))
          => UNCHANGED <<tcVerifier, tcMinRound>>]_vars

\* C33: Update(round) returns ErrRoundAlreadyPurged only for a round that was
\* cached earlier and has been evicted since, and then, as when governance
\* reports the DKG of the round as not final, the cache and minRound are
\* unchanged.
C33_PurgedOnlyIfEvicted ==
    [][/\ tcLast'.err = "ErrRoundAlreadyPurged" =>
              /\ tcLast'.round \in tcEver
              /\ tcLast'.round \notin DOMAIN tcVerifier
       /\ (\/ tcLast'.err = "ErrRoundAlreadyPurged"
           \/ (~tcLast'.ok /\ tcLast'.err = Nil))
             => UNCHANGED <<tcVerifier, tcMinRound>>]_vars

\* Update returned ErrRoundAlreadyPurged for a round that was never cached,
\* and nothing was evicted yet.
C33_NeverCachedRejected ==
    /\ tcLast.err = "ErrRoundAlreadyPurged"
    /\ tcLast.round \notin tcEver
    /\ tcEver = DOMAIN tcVerifier


(***************************************************************************)
(* Claims on votes for a chain that does not exist.                        *)
(***************************************************************************)
\* C34: a vote whose Position.ChainID is NumChains or more is dropped by the
\* dispatcher: the node does not crash and the state of no agreement
\* changes.
C34_BadChainVoteDropped ==
    [][(/\ toConsensus # <<>>
        /\ Head(toConsensus).chain >= NumChains
        /\ toConsensus' = Tail(toConsensus))
          => (~dispPanic' /\ baProcessed' = baProcessed)]_vars

\* processMsg took a vote for chain NumChains off the channel and the
\* process is gone, with votes of existing chains still waiting.
C34_Crashed ==
    /\ dispPanic
    /\ toConsensus # <<>>
    /\ \A c \in Chains : baProcessed[c] = <<>>


(***************************************************************************)
(* Claims on the restartNotary channel.                                    *)
(***************************************************************************)
\* C35: every ConfirmBlock whose processBlock succeeded returns in the end:
\* its send of false on restartNotary completes, also when runBA has left
\* its loop; and no runBA waits for ever in its own send on the channel.
C35_ConfirmBlockReturns ==
    \A c \in Chains :
        /\ raPending[c] ~> ~raPending[c]
        /\ (raPc[c] = "start") ~> (raPc[c] # "start")

\* What does hold: while runBA is in its loop, a ConfirmBlock that waits in
\* its send gets through.
C35_ReturnsWhileRunBARuns ==
    \A c \in Chains :
        raPending[c] ~> (~raPending[c] \/ raPc[c] \in {"start", "exited"})

\* runBA of chain 0 has left its loop and a ConfirmBlock waits in its send
\* on the full channel.
C35_SenderLeftBehind ==
    /\ raPc[0] = "exited"
    /\ raPending[0]
    /\ Len(raChan[0]) = 1


(***************************************************************************)
(* Claims on the termination of TSigVerifierCache.Update.                  *)
(***************************************************************************)
\* C36: Update terminates for every round and every cacheSize >= 0: the loop
\* that advances minRound after an eviction finds a cached round.
C36_UpdateTerminates == ~tcHung

\* What does hold: with a cacheSize of 1 or more the loop finds a cached
\* round.
C36_TerminatesWithRoom == tcCacheSize >= 1 => ~tcHung

\* A cache made with cacheSize 0 is empty after its first insertion, and
\* Update is in the loop.
C36_EmptyAfterInsert ==
    /\ tcCacheSize = 0
    /\ tcHung
    /\ tcLast.inserted
    /\ DOMAIN tcVerifier = {}


(***************************************************************************)
(* Claims on Network.Close.                                                *)
(***************************************************************************)
\* C37: the Network never sends on a closed channel: after Close() no
\* dispatchMsg goroutine that Run started sends on the channels Close
\* closed.
C37_NoSendOnClosedChannel == ~netPanic

\* Close() was called with a dispatchMsg goroutine still on its way, and the
\* goroutine sent on the closed channel.
C37_SentAfterClose ==
    /\ netClosed
    /\ netPanic
    /\ netArrived = 1


(***************************************************************************)
(* Claims on ProposeBlock.                                                 *)
(***************************************************************************)
\* The candidate of a chain that ProposeBlock built in the step.
Proposed == {b \in candidates'[conPropose'.chain] : b.Hash = conPropose'.hash}

\* A block ProposeBlock broadcasts has passed the sanity check and is with
\* the candidate blocks of the agreement of its chain.
C38_BroadcastAfterChecks ==
    [][conPropose'.broadcast =>
          /\ conErr' = Nil
          /\ Proposed # {}
          /\ \A b \in Proposed : sanityCheck(rbTip, b) = Nil]_vars

\* C38: when preparing or signing the block fails, ProposeBlock hands nothing
\* to addCandidateBlock, hands nothing to preProcessBlock and broadcasts
\* nothing; and a block is broadcast only after it passed the sanity check
\* and the agreement's processBlock.
C38_FailedProposalHasNoEffect ==
    [][/\ conPropose'.failed =>
              /\ conPropose'.calls = {}
              /\ candidates' = candidates
              /\ ~conPropose'.broadcast
       /\ conPropose'.broadcast =>
              /\ conErr' = Nil
              /\ Proposed # {}
              /\ \A b \in Proposed : sanityCheck(rbTip, b) = Nil]_vars

\* proposeBlock failed and the node is gone.
C38_FailedProposalPanics ==
    /\ conPropose.failed
    /\ "preProcessBlock" \in conPropose.calls
    /\ conPanic

\* ProposeBlock kept its block as a candidate and did not broadcast it: the
\* sanity check refused its time.
C38_CandidateNotBroadcast ==
    /\ conPropose.hash # 0
    /\ ~conPropose.broadcast
    /\ conErr = "ErrIncorrectBlockTime"
    /\ \E b \in candidates[conPropose.chain] : b.Hash = conPropose.hash


(***************************************************************************)
(* Claims on NewDKGGroupPublicKey with complaints against nodes that       *)
(* published no master public key.                                         *)
(***************************************************************************)
\* The complaints of governance that accuse a node whose master public key
\* governance holds.
KnownAccused ==
    Restrict(govComplaints,
             {c \in DOMAIN govComplaints : c.ShareProposerID \in govMpks})

\* What TSigVerifierCache.Update gets from NewDKGGroupPublicKey for the master
\* public keys of governance and the given complaints.
GroupPublicKeyOf(complaints) ==
    NewDKGGroupPublicKey(0, govMpks, complaints, UpdateThreshold(DKGSetSize))

\* Where NewDKGGroupPublicKey returns, the complaints against nodes without
\* a master public key have not changed the qualified set.
C39_UnknownAccusedIgnored ==
    ~GroupPublicKeyOf(govComplaints).panic =>
        GroupPublicKeyOf(govComplaints).qualifyNodeIDs
            = GroupPublicKeyOf(KnownAccused).qualifyNodeIDs

\* C39: NewDKGGroupPublicKey never crashes, whatever master public keys and
\* complaints governance holds, and the complaints that accuse a node without
\* a master public key do not change the qualified set.
C39_NeverCrashes ==
    /\ ~GroupPublicKeyOf(govComplaints).panic
    /\ GroupPublicKeyOf(govComplaints).qualifyNodeIDs
           = GroupPublicKeyOf(KnownAccused).qualifyNodeIDs

\* The DKG is final, more nodes are disqualified than published a master
\* public key, and the call of Update panics in NewDKGGroupPublicKey.
C39_PanicOnUnknownAccused ==
    /\ dkgFinal
    /\ KnownAccused # govComplaints
    /\ GroupPublicKeyOf(govComplaints).panic

\* A complaint against a node without a master public key that
\* NewDKGGroupPublicKey got over.
C39_UnknownAccusedSurvived ==
    /\ dkgFinal
    /\ KnownAccused # govComplaints
    /\ 0 \in DOMAIN verifier
    /\ verifier[0].qualifyNodeIDs # {}


(***************************************************************************)
(* Claims on Consensus.Run and runDKGTSIG.                                 *)
(***************************************************************************)
\* C40: no chain's runBA is started and no tick is handed to a chain before
\* the DKG and TSIG task of the first round has ended (dkgRunning is 2), and
\* runDKGTSIG starts that task at most once, however often it is called.
C40_BAAfterDKGOnce ==
    /\ (\/ rdBA # {}
        \/ \E c \in Chains : rdSenders[c] + rdDelivered[c] > 0)
           => /\ dkgRunning = 2
              /\ rdTasks.finished = 1
    /\ rdTasks.started <= 1

\* runDKGTSIG was called three times, one task ran and ended, and after it
\* every chain's runBA was started and received a tick.
C40_Witness ==
    /\ rdCalls = MaxDKGCalls
    /\ rdTasks = [started |-> 1, live |-> 0, finished |-> 1]
    /\ rdBA = Chains
    /\ \A c \in Chains : rdDelivered[c] > 0

=============================================================================
